---- MODULE Spec2Model ----
(***************************************************************************)
(* A model of glids (bboles/glids): the GitLab client of                   *)
(* internal/gitlab/client.go (confirmation gate, paginated fetchers,       *)
(* hierarchy population) and the status animator of cmd/glids/main.go.     *)
(*                                                                         *)
(* The main goroutine is modelled as a call stack of frames, one frame per *)
(* active Go function, each with a program counter; one action is one      *)
(* step of the function on top of the stack between two interactions with  *)
(* the outside (an HTTP request, the confirmation policy, the control      *)
(* channel, a call or a return).  The animator goroutine of showStatus is  *)
(* a second process.  Strings are sequences of byte codes.                 *)
(***************************************************************************)
EXTENDS Integers, Sequences, FiniteSets, TLC

VARIABLES
    stack,          \* call stack of the main goroutine, top is the last frame
    ret,            \* value returned by the frame popped last: [val, err]
    log,            \* history: calls, returns, HTTP requests, prompts, channel sends
    srv,            \* the remote server: a fixed function from requests to responses
    pauseStatus,    \* Client.pauseStatus: "nil" or "chan" ("closed": a closed channel)
    ch,             \* buffer of the control channel pauseCh (capacity 1)
    anim,           \* the animator goroutine: "off" (never started), "running", "exited"
    paused,         \* showStatus' local variable paused
    progressIndex,  \* showStatus' local variable progressIndex
    done,           \* whether showStatus' channel done is closed
    statusLine,     \* what the animator wrote last on the status line
    calls           \* number of top-level calls the driver has made

vars == <<stack, ret, log, srv, pauseStatus, ch, anim, paused, progressIndex,
          done, statusLine, calls>>

animVars == <<anim, paused, progressIndex, statusLine>>

----------------------------------------------------------------------------
(* Bounds of the model. *)

\* ticks of the animator's ticker that are followed
MaxTicks == 1
\* calls of confirmLargeFetch a driver makes in a row
MaxGateCalls == 2

----------------------------------------------------------------------------
(* Strings: sequences of byte codes. *)

\* strings.ToLower on one ASCII byte
LowerByte(b) == IF b >= 65 /\ b <= 90 THEN b + 32 ELSE b

\* strings.ToLower
ToLower(s) == [i \in 1..Len(s) |-> LowerByte(s[i])]

\* Go's s < t on strings: bytewise lexicographic
RECURSIVE StrLess(_, _)
StrLess(s, t) ==
    IF t = <<>> THEN FALSE
    ELSE IF s = <<>> THEN TRUE
    ELSE IF s[1] # t[1] THEN s[1] < t[1]
    ELSE StrLess(Tail(s), Tail(t))

\* strings.Contains(s, sub)
Contains(s, sub) ==
    \E i \in 0..(Len(s) - Len(sub)) : SubSeq(s, i + 1, i + Len(sub)) = sub

----------------------------------------------------------------------------
(* Errors: an error is the sequence of the parts of its message, outermost *)
(* first; nil is the empty sequence.  fmt.Errorf("...: %w", err) puts a    *)
(* part in front.                                                          *)

NilErr == <<>>

ErrPart(msg, arg) == [msg |-> msg, arg |-> arg]

\* fmt.Errorf("operation cancelled by user")
ErrCancelled == << ErrPart("operation cancelled by user", <<>>) >>

\* fmt.Errorf(msg + ": %w", err)
Wrap(msg, arg, err) == << ErrPart(msg, arg) >> \o err

\* err.Error() == "operation cancelled by user"
IsCancelMsg(err) == err = ErrCancelled

----------------------------------------------------------------------------
(* The call stack. *)

Top == stack[Len(stack)]

Running(fn, pc) == stack # <<>> /\ Top.fn = fn /\ Top.pc = pc

\* replace the frame on top
SetTop(f) == [stack EXCEPT ![Len(stack)] = f]

\* pop the frame on top
Pop == SubSeq(stack, 1, Len(stack) - 1)

RetVal(val, err) == [val |-> val, err |-> err]

NoRet == RetVal(<<>>, NilErr)

----------------------------------------------------------------------------
(* The confirmation gate. *)

largeFetchThreshold == 50

ConfirmFrame(desc, totalCount) ==
    [fn |-> "confirmLargeFetch", pc |-> "entry", desc |-> desc,
     totalCount |-> totalCount, didPause |-> FALSE]

\* select { case c.pauseStatus <- v: ... default: ... } on a channel of capacity 1
CanSend == Len(ch) < 1

\* ConfirmEntry with the threshold test written as a strict comparison
ConfirmEntryStrict ==
    /\ Running("confirmLargeFetch", "entry")
    /\ IF Top.totalCount < largeFetchThreshold
       THEN /\ stack' = Pop
            /\ ret' = RetVal(TRUE, NilErr)
            /\ log' = Append(log, [ev |-> "return", fn |-> "confirmLargeFetch",
                                   val |-> TRUE])
            /\ ch' = ch
       ELSE IF pauseStatus # "nil" /\ CanSend
       THEN /\ ch' = Append(ch, TRUE)
            /\ stack' = SetTop([Top EXCEPT !.pc = "ask", !.didPause = TRUE])
            /\ log' = Append(log, [ev |-> "send", val |-> TRUE])
            /\ ret' = ret
       ELSE /\ stack' = SetTop([Top EXCEPT !.pc = "ask"])
            /\ UNCHANGED <<ch, log, ret>>
    /\ UNCHANGED <<srv, pauseStatus, animVars, done, calls>>

\* ConfirmEntry with a plain send in place of the select with a default
\* case: the send waits for room in the channel
ConfirmEntryBlocking ==
    /\ Running("confirmLargeFetch", "entry")
    /\ IF Top.totalCount <= largeFetchThreshold
       THEN /\ stack' = Pop
            /\ ret' = RetVal(TRUE, NilErr)
            /\ log' = Append(log, [ev |-> "return", fn |-> "confirmLargeFetch",
                                   val |-> TRUE])
            /\ ch' = ch
       ELSE IF pauseStatus # "nil"
       THEN /\ CanSend
            /\ ch' = Append(ch, TRUE)
            /\ stack' = SetTop([Top EXCEPT !.pc = "ask", !.didPause = TRUE])
            /\ log' = Append(log, [ev |-> "send", val |-> TRUE])
            /\ ret' = ret
       ELSE /\ stack' = SetTop([Top EXCEPT !.pc = "ask"])
            /\ UNCHANGED <<ch, log, ret>>
    /\ UNCHANGED <<srv, pauseStatus, animVars, done, calls>>

\* confirmLargeFetch up to the call of the confirmation policy: the threshold
\* test and the non-blocking pause signal
ConfirmEntry ==
    /\ Running("confirmLargeFetch", "entry")
    /\ IF Top.totalCount <= largeFetchThreshold
       THEN /\ stack' = Pop
            /\ ret' = RetVal(TRUE, NilErr)
            /\ log' = Append(log, [ev |-> "return", fn |-> "confirmLargeFetch",
                                   val |-> TRUE])
            /\ ch' = ch
       ELSE IF pauseStatus # "nil" /\ CanSend
       THEN /\ ch' = Append(ch, TRUE)
            /\ stack' = SetTop([Top EXCEPT !.pc = "ask", !.didPause = TRUE])
            /\ log' = Append(log, [ev |-> "send", val |-> TRUE])
            /\ ret' = ret
       ELSE /\ stack' = SetTop([Top EXCEPT !.pc = "ask"])
            /\ UNCHANGED <<ch, log, ret>>
    /\ UNCHANGED <<srv, pauseStatus, animVars, done, calls>>

\* ConfirmAsk resuming the animator whatever the answer
ConfirmAskAlwaysResume ==
    /\ Running("confirmLargeFetch", "ask")
    /\ \E confirmed \in BOOLEAN :
          LET prompt == [ev |-> "prompt", desc |-> Top.desc,
                         totalCount |-> Top.totalCount, answer |-> confirmed]
              resume == Top.didPause /\ pauseStatus # "nil" /\ CanSend
          IN IF confirmed
             THEN /\ stack' = SetTop([Top EXCEPT !.pc = "resume"])
                  /\ log' = Append(log, prompt)
                  /\ UNCHANGED <<ret, ch>>
             ELSE /\ stack' = Pop
                  /\ ret' = RetVal(FALSE, NilErr)
                  /\ ch' = IF resume THEN Append(ch, FALSE) ELSE ch
                  /\ log' = log \o << prompt >>
                              \o (IF resume THEN << [ev |-> "send", val |-> FALSE] >>
                                  ELSE <<>>)
                              \o << [ev |-> "return", fn |-> "confirmLargeFetch",
                                     val |-> FALSE] >>
    /\ UNCHANGED <<srv, pauseStatus, animVars, done, calls>>

\* confirmLargeFetch from the call of the confirmation policy to the return
\* on a negative answer
ConfirmAsk ==
    /\ Running("confirmLargeFetch", "ask")
    /\ \E confirmed \in BOOLEAN :
          LET prompt == [ev |-> "prompt", desc |-> Top.desc,
                         totalCount |-> Top.totalCount, answer |-> confirmed]
          IN IF confirmed
             THEN /\ stack' = SetTop([Top EXCEPT !.pc = "resume"])
                  /\ log' = Append(log, prompt)
                  /\ ret' = ret
             ELSE /\ stack' = Pop
                  /\ ret' = RetVal(FALSE, NilErr)
                  /\ log' = log \o << prompt,
                                [ev |-> "return", fn |-> "confirmLargeFetch",
                                 val |-> FALSE] >>
    /\ UNCHANGED <<srv, pauseStatus, ch, animVars, done, calls>>

\* ConfirmResume sending the resume signal whether or not the pause signal
\* of the call was sent
ConfirmResumeAlways ==
    /\ Running("confirmLargeFetch", "resume")
    /\ IF pauseStatus # "nil" /\ CanSend
       THEN /\ ch' = Append(ch, FALSE)
            /\ log' = log \o << [ev |-> "send", val |-> FALSE],
                          [ev |-> "return", fn |-> "confirmLargeFetch",
                           val |-> TRUE] >>
       ELSE /\ ch' = ch
            /\ log' = Append(log, [ev |-> "return", fn |-> "confirmLargeFetch",
                                   val |-> TRUE])
    /\ stack' = Pop
    /\ ret' = RetVal(TRUE, NilErr)
    /\ UNCHANGED <<srv, pauseStatus, animVars, done, calls>>

\* confirmLargeFetch after an affirmative answer: the non-blocking resume
\* signal and the return
ConfirmResume ==
    /\ Running("confirmLargeFetch", "resume")
    /\ IF Top.didPause /\ pauseStatus # "nil" /\ CanSend
       THEN /\ ch' = Append(ch, FALSE)
            /\ log' = log \o << [ev |-> "send", val |-> FALSE],
                          [ev |-> "return", fn |-> "confirmLargeFetch",
                           val |-> TRUE] >>
       ELSE /\ ch' = ch
            /\ log' = Append(log, [ev |-> "return", fn |-> "confirmLargeFetch",
                                   val |-> TRUE])
    /\ stack' = Pop
    /\ ret' = RetVal(TRUE, NilErr)
    /\ UNCHANGED <<srv, pauseStatus, animVars, done, calls>>

----------------------------------------------------------------------------
(* Data model. *)

\* type Project
Project(id, path, name) == [ID |-> id, PathWithNamespace |-> path, Name |-> name]

\* type Group; ParentID 0 stands for a nil pointer
Group(id, parent, path, name) ==
    [ID |-> id, ParentID |-> parent, FullPath |-> path, Name |-> name,
     Subgroups |-> <<>>, Projects |-> <<>>]

\* the zero value of Group, as make([]Group, n) fills a slice
ZeroGroup == Group(0, 0, <<>>, <<>>)

\* type PaginationInfo
PaginationInfo(total, perPage, totalPages, currentPage) ==
    [Total |-> total, PerPage |-> perPage, TotalPages |-> totalPages,
     CurrentPage |-> currentPage]

\* one object of a JSON array the server sends
JsonObject(id, parent, name, pathWithNamespace, fullPath) ==
    [id |-> id, parent_id |-> parent, name |-> name,
     path_with_namespace |-> pathWithNamespace, full_path |-> fullPath]

\* json.Unmarshal into []Project: the tagged fields only
DecodeProjects(objs) ==
    [i \in 1..Len(objs) |->
        Project(objs[i].id, objs[i].path_with_namespace, objs[i].name)]

\* json.Unmarshal into []Group: Subgroups and Projects carry json:"-"
DecodeGroups(objs) ==
    [i \in 1..Len(objs) |->
        Group(objs[i].id, objs[i].parent_id, objs[i].full_path, objs[i].name)]

----------------------------------------------------------------------------
(* HTTP: requests, responses, the GET primitive. *)

\* the URL of a request: the endpoint, the group of a nested endpoint (0
\* when none), per_page, page, the search parameter (empty when absent) and
\* whether last_activity_after is present
Request(path, gid, perPage, page, search, recent) ==
    [path |-> path, gid |-> gid, perPage |-> perPage, page |-> page,
     search |-> search, recent |-> recent]

\* what comes back: fail is "none", or the step of Client.get that fails
\* before a response is read ("create", "do", "read")
Response(fail, status, bodyOK, objs, xTotal) ==
    [fail |-> fail, status |-> status, bodyOK |-> bodyOK, objs |-> objs,
     xTotal |-> xTotal, xPerPage |-> <<>>, xTotalPages |-> <<>>, xPage |-> <<>>]

StatusOK == 200

IsDigit(b) == b >= 48 /\ b <= 57

RECURSIVE DigitsValue(_, _)
DigitsValue(s, acc) ==
    IF s = <<>> THEN acc ELSE DigitsValue(Tail(s), 10 * acc + (Head(s) - 48))

\* strconv.Atoi: an optional sign and at least one digit, nothing else
Atoi(s) ==
    LET signed == s # <<>> /\ Head(s) \in {43, 45}
        digits == IF signed THEN Tail(s) ELSE s
        ok     == digits # <<>> /\ \A i \in 1..Len(digits) : IsDigit(digits[i])
        value  == IF ok THEN DigitsValue(digits, 0) ELSE 0
    IN [ok  |-> ok,
        val |-> IF signed /\ Head(s) = 45 THEN 0 - value ELSE value]

\* one header of extractPaginationInfo: zero unless present and a number
HeaderInt(h) == IF h # <<>> /\ Atoi(h).ok THEN Atoi(h).val ELSE 0

extractPaginationInfo(resp) ==
    PaginationInfo(HeaderInt(resp.xTotal), HeaderInt(resp.xPerPage),
                   HeaderInt(resp.xTotalPages), HeaderInt(resp.xPage))

NilInfo == PaginationInfo(0, 0, 0, 0)

\* Client.get decoding the body of any response it could read, whatever
\* the status
GetIgnoringStatus(resp) ==
    IF resp.fail = "create"
    THEN [info |-> NilInfo, objs |-> <<>>,
          err |-> << ErrPart("error creating request", <<>>) >>]
    ELSE IF resp.fail = "do"
    THEN [info |-> NilInfo, objs |-> <<>>,
          err |-> << ErrPart("error making API request", <<>>) >>]
    ELSE IF resp.fail = "read"
    THEN [info |-> extractPaginationInfo(resp), objs |-> <<>>,
          err |-> << ErrPart("error reading response body", <<>>) >>]
    ELSE IF ~resp.bodyOK
    THEN [info |-> extractPaginationInfo(resp), objs |-> <<>>,
          err |-> << ErrPart("error parsing JSON response", <<>>) >>]
    ELSE [info |-> extractPaginationInfo(resp), objs |-> resp.objs,
          err |-> NilErr]

\* Client.get: the pagination info, the error, and the decoded array (what
\* target holds afterwards)
Get(resp) ==
    IF resp.fail = "create"
    THEN [info |-> NilInfo, objs |-> <<>>,
          err |-> << ErrPart("error creating request", <<>>) >>]
    ELSE IF resp.fail = "do"
    THEN [info |-> NilInfo, objs |-> <<>>,
          err |-> << ErrPart("error making API request", <<>>) >>]
    ELSE IF resp.fail = "read"
    THEN [info |-> extractPaginationInfo(resp), objs |-> <<>>,
          err |-> << ErrPart("error reading response body", <<>>) >>]
    ELSE IF resp.status # StatusOK
    THEN [info |-> extractPaginationInfo(resp), objs |-> <<>>,
          err |-> << ErrPart("API request failed with status", <<resp.status>>) >>]
    ELSE IF ~resp.bodyOK
    THEN [info |-> extractPaginationInfo(resp), objs |-> <<>>,
          err |-> << ErrPart("error parsing JSON response", <<>>) >>]
    ELSE [info |-> extractPaginationInfo(resp), objs |-> resp.objs,
          err |-> NilErr]

\* The server.  srv maps an endpoint (path, group, search parameter) to the
\* response of its count probe, the pages of its list, and the page whose
\* request fails (0: none) with the response sent then.
Endpoint(req) == <<req.path, req.gid, req.search>>

Respond(req) ==
    LET e == srv[Endpoint(req)]
    IN IF req.perPage = 1 THEN e.probe
       ELSE IF e.failAt = req.page THEN e.failResp
       ELSE Response("none", StatusOK, TRUE,
                     IF req.page <= Len(e.pages) THEN e.pages[req.page] ELSE <<>>,
                     <<>>)

\* the GET of a request, with the request put in the history
Issue(req) == Append(log, [ev |-> "req", req |-> req])

----------------------------------------------------------------------------
(* Steps of the main goroutine. *)

\* one step: the new stack, the new return value, the events it adds to the
\* history; the server, the client and the animator are left alone
Step(newStack, newRet, events) ==
    /\ stack' = newStack
    /\ ret' = newRet
    /\ log' = log \o events
    /\ UNCHANGED <<srv, pauseStatus, ch, animVars, done, calls>>

\* the caller moves to pc and the callee's frame goes on top
Call(pc, frame) == Append(SetTop([Top EXCEPT !.pc = pc]), frame)

ReqEv(req) == [ev |-> "req", req |-> req]

CallEv(fn, arg, all) == [ev |-> "call", fn |-> fn, arg |-> arg, all |-> all]

ConfirmCallEv(totalCount) ==
    [ev |-> "call", fn |-> "confirmLargeFetch", totalCount |-> totalCount]

ReturnEv(fn, val, err) == [ev |-> "return", fn |-> fn, val |-> val, err |-> err]

Desc(kind, gid, search) == [kind |-> kind, gid |-> gid, search |-> search]

probePerPage == 1

listPerPage == 100

----------------------------------------------------------------------------
(* CheckResourceCount *)

\* the URL CheckResourceCount builds: the search term goes to the server for
\* groups only
CheckResourceCountReq(resourceType, allItems, searchTerm) ==
    Request(resourceType, 0, probePerPage, 1,
            IF resourceType = "groups" THEN searchTerm ELSE <<>>,
            ~allItems)

\* CheckResourceCount: (paginationInfo.Total, nil) or (0, err)
CheckResourceCount(resourceType, allItems, searchTerm) ==
    IF resourceType \notin {"groups", "projects"}
    THEN [total |-> 0, err |-> << ErrPart("unknown resource type", <<>>) >>,
          reqs |-> <<>>]
    ELSE LET req == CheckResourceCountReq(resourceType, allItems, searchTerm)
             r   == Get(Respond(req))
         IN [total |-> IF r.err # NilErr THEN 0 ELSE r.info.Total,
             err   |-> r.err,
             reqs  |-> << ReqEv(req) >>]

----------------------------------------------------------------------------
(* getProjectsForGroup *)

GetProjectsForGroupFrame(groupID, allProjects) ==
    [fn |-> "getProjectsForGroup", pc |-> "probe", groupID |-> groupID,
     all |-> allProjects, page |-> 1, list |-> <<>>]

\* GetProjectsForGroupProbe taking a total of zero for an empty list
GetProjectsForGroupProbeZeroEmpty ==
    /\ Running("getProjectsForGroup", "probe")
    /\ LET req == Request("groupProjects", Top.groupID, probePerPage, 1, <<>>,
                          ~Top.all)
           r   == Get(Respond(req))
       IN IF r.err = NilErr /\ r.info.Total = 0
          THEN Step(Pop, RetVal(<<>>, NilErr),
                    << ReqEv(req), ReturnEv("getProjectsForGroup", <<>>, NilErr) >>)
          ELSE IF r.err # NilErr \/ ~Top.all
          THEN Step(SetTop([Top EXCEPT !.pc = "page"]), ret, << ReqEv(req) >>)
          ELSE Step(Call("confirmed",
                         ConfirmFrame(Desc("projects for group", Top.groupID, <<>>),
                                      r.info.Total)),
                    ret, << ReqEv(req), ConfirmCallEv(r.info.Total) >>)

\* the count request and, with allProjects, the call of the gate
GetProjectsForGroupProbe ==
    /\ Running("getProjectsForGroup", "probe")
    /\ LET req == Request("groupProjects", Top.groupID, probePerPage, 1, <<>>,
                          ~Top.all)
           r   == Get(Respond(req))
       IN IF r.err # NilErr \/ ~Top.all
          THEN Step(SetTop([Top EXCEPT !.pc = "page"]), ret, << ReqEv(req) >>)
          ELSE Step(Call("confirmed",
                         ConfirmFrame(Desc("projects for group", Top.groupID, <<>>),
                                      r.info.Total)),
                    ret, << ReqEv(req), ConfirmCallEv(r.info.Total) >>)

\* back from the gate
GetProjectsForGroupConfirmed ==
    /\ Running("getProjectsForGroup", "confirmed")
    /\ IF ~ret.val
       THEN Step(Pop, RetVal(<<>>, ErrCancelled),
                 << ReturnEv("getProjectsForGroup", <<>>, ErrCancelled) >>)
       ELSE Step(SetTop([Top EXCEPT !.pc = "page"]), ret, <<>>)

\* one turn of the page loop
GetProjectsForGroupPage ==
    /\ Running("getProjectsForGroup", "page")
    /\ LET req == Request("groupProjects", Top.groupID, listPerPage, Top.page,
                          <<>>, ~Top.all)
           r   == Get(Respond(req))
           err == Wrap("error fetching projects for group", <<Top.groupID>>, r.err)
           projects == DecodeProjects(r.objs)
       IN IF r.err # NilErr
          THEN Step(Pop, RetVal(<<>>, err),
                    << ReqEv(req), ReturnEv("getProjectsForGroup", <<>>, err) >>)
          ELSE IF Len(projects) = 0
          THEN Step(Pop, RetVal(Top.list, NilErr),
                    << ReqEv(req), ReturnEv("getProjectsForGroup", Top.list, NilErr) >>)
          ELSE Step(SetTop([Top EXCEPT !.list = Top.list \o projects,
                                       !.page = Top.page + 1]),
                    ret, << ReqEv(req) >>)

----------------------------------------------------------------------------
(* getSubgroups *)

GetSubgroupsFrame(groupID, allGroups) ==
    [fn |-> "getSubgroups", pc |-> "probe", groupID |-> groupID,
     all |-> allGroups, page |-> 1, list |-> <<>>]

\* GetSubgroupsProbe returning the error of a failed count request
GetSubgroupsProbeFatal ==
    /\ Running("getSubgroups", "probe")
    /\ LET req == Request("subgroups", Top.groupID, probePerPage, 1, <<>>,
                          ~Top.all)
           r   == Get(Respond(req))
       IN IF r.err # NilErr
          THEN Step(Pop, RetVal(<<>>, r.err),
                    << ReqEv(req), ReturnEv("getSubgroups", <<>>, r.err) >>)
          ELSE IF ~Top.all
          THEN Step(SetTop([Top EXCEPT !.pc = "page"]), ret, << ReqEv(req) >>)
          ELSE Step(Call("confirmed",
                         ConfirmFrame(Desc("subgroups for group", Top.groupID, <<>>),
                                      r.info.Total)),
                    ret, << ReqEv(req), ConfirmCallEv(r.info.Total) >>)

\* GetSubgroupsProbe calling the gate whatever the flag
GetSubgroupsProbeAlways ==
    /\ Running("getSubgroups", "probe")
    /\ LET req == Request("subgroups", Top.groupID, probePerPage, 1, <<>>,
                          ~Top.all)
           r   == Get(Respond(req))
       IN IF r.err # NilErr
          THEN Step(SetTop([Top EXCEPT !.pc = "page"]), ret, << ReqEv(req) >>)
          ELSE Step(Call("confirmed",
                         ConfirmFrame(Desc("subgroups for group", Top.groupID, <<>>),
                                      r.info.Total)),
                    ret, << ReqEv(req), ConfirmCallEv(r.info.Total) >>)

\* the count request and, with allGroups, the call of the gate
GetSubgroupsProbe ==
    /\ Running("getSubgroups", "probe")
    /\ LET req == Request("subgroups", Top.groupID, probePerPage, 1, <<>>,
                          ~Top.all)
           r   == Get(Respond(req))
       IN IF r.err # NilErr \/ ~Top.all
          THEN Step(SetTop([Top EXCEPT !.pc = "page"]), ret, << ReqEv(req) >>)
          ELSE Step(Call("confirmed",
                         ConfirmFrame(Desc("subgroups for group", Top.groupID, <<>>),
                                      r.info.Total)),
                    ret, << ReqEv(req), ConfirmCallEv(r.info.Total) >>)

\* back from the gate
GetSubgroupsConfirmed ==
    /\ Running("getSubgroups", "confirmed")
    /\ IF ~ret.val
       THEN Step(Pop, RetVal(<<>>, ErrCancelled),
                 << ReturnEv("getSubgroups", <<>>, ErrCancelled) >>)
       ELSE Step(SetTop([Top EXCEPT !.pc = "page"]), ret, <<>>)

\* GetSubgroupsPage asking for the pages without last_activity_after
GetSubgroupsPageNoRecency ==
    /\ Running("getSubgroups", "page")
    /\ LET req == Request("subgroups", Top.groupID, listPerPage, Top.page,
                          <<>>, FALSE)
           r   == Get(Respond(req))
           err == Wrap("error fetching subgroups for group", <<Top.groupID>>, r.err)
           groups == DecodeGroups(r.objs)
       IN IF r.err # NilErr
          THEN Step(Pop, RetVal(<<>>, err),
                    << ReqEv(req), ReturnEv("getSubgroups", <<>>, err) >>)
          ELSE IF Len(groups) = 0
          THEN Step(Pop, RetVal(Top.list, NilErr),
                    << ReqEv(req), ReturnEv("getSubgroups", Top.list, NilErr) >>)
          ELSE Step(SetTop([Top EXCEPT !.list = Top.list \o groups,
                                       !.page = Top.page + 1]),
                    ret, << ReqEv(req) >>)

\* one turn of the page loop
GetSubgroupsPage ==
    /\ Running("getSubgroups", "page")
    /\ LET req == Request("subgroups", Top.groupID, listPerPage, Top.page,
                          <<>>, ~Top.all)
           r   == Get(Respond(req))
           err == Wrap("error fetching subgroups for group", <<Top.groupID>>, r.err)
           groups == DecodeGroups(r.objs)
       IN IF r.err # NilErr
          THEN Step(Pop, RetVal(<<>>, err),
                    << ReqEv(req), ReturnEv("getSubgroups", <<>>, err) >>)
          ELSE IF Len(groups) = 0
          THEN Step(Pop, RetVal(Top.list, NilErr),
                    << ReqEv(req), ReturnEv("getSubgroups", Top.list, NilErr) >>)
          ELSE Step(SetTop([Top EXCEPT !.list = Top.list \o groups,
                                       !.page = Top.page + 1]),
                    ret, << ReqEv(req) >>)

----------------------------------------------------------------------------
(* GetProjects *)

GetProjectsFrame(searchTerm, allProjects) ==
    [fn |-> "GetProjects", pc |-> "start", searchTerm |-> searchTerm,
     all |-> allProjects, page |-> 1, list |-> <<>>]

\* FilterProjects matching the name as well as the path
FilterProjectsByName(list, searchTerm) ==
    SelectSeq(list, LAMBDA project :
        \/ Contains(ToLower(project.PathWithNamespace), ToLower(searchTerm))
        \/ Contains(ToLower(project.Name), ToLower(searchTerm)))

\* the client-side filter on path_with_namespace
FilterProjects(list, searchTerm) ==
    SelectSeq(list, LAMBDA project :
        Contains(ToLower(project.PathWithNamespace), ToLower(searchTerm)))

\* with allProjects, the count probe and the call of the gate
GetProjectsStart ==
    /\ Running("GetProjects", "start")
    /\ IF ~Top.all
       THEN Step(SetTop([Top EXCEPT !.pc = "page"]), ret, <<>>)
       ELSE LET c == CheckResourceCount("projects", Top.all, Top.searchTerm)
            IN IF c.err # NilErr
               THEN Step(SetTop([Top EXCEPT !.pc = "page"]), ret, c.reqs)
               ELSE Step(Call("confirmed",
                              ConfirmFrame(Desc("projects", 0, <<>>), c.total)),
                         ret, c.reqs \o << ConfirmCallEv(c.total) >>)

\* back from the gate
GetProjectsConfirmed ==
    /\ Running("GetProjects", "confirmed")
    /\ IF ~ret.val
       THEN Step(Pop, RetVal(<<>>, ErrCancelled),
                 << ReturnEv("GetProjects", <<>>, ErrCancelled) >>)
       ELSE Step(SetTop([Top EXCEPT !.pc = "page"]), ret, <<>>)

\* GetProjectsPage leaving the loop at the first page that is not full
GetProjectsPageShortStop ==
    /\ Running("GetProjects", "page")
    /\ LET req == Request("projects", 0, listPerPage, Top.page, <<>>, ~Top.all)
           r   == Get(Respond(req))
           projects == DecodeProjects(r.objs)
           list == Top.list \o projects
           result == IF Top.searchTerm # <<>>
                     THEN FilterProjects(list, Top.searchTerm)
                     ELSE list
       IN IF r.err # NilErr
          THEN Step(Pop, RetVal(<<>>, r.err),
                    << ReqEv(req), ReturnEv("GetProjects", <<>>, r.err) >>)
          ELSE IF Len(projects) < listPerPage
          THEN Step(Pop, RetVal(result, NilErr),
                    << ReqEv(req), ReturnEv("GetProjects", result, NilErr) >>)
          ELSE Step(SetTop([Top EXCEPT !.list = list, !.page = Top.page + 1]),
                    ret, << ReqEv(req) >>)

\* one turn of the page loop; after the empty page, the client-side filter
GetProjectsPage ==
    /\ Running("GetProjects", "page")
    /\ LET req == Request("projects", 0, listPerPage, Top.page, <<>>, ~Top.all)
           r   == Get(Respond(req))
           projects == DecodeProjects(r.objs)
           result == IF Top.searchTerm # <<>>
                     THEN FilterProjects(Top.list, Top.searchTerm)
                     ELSE Top.list
       IN IF r.err # NilErr
          THEN Step(Pop, RetVal(<<>>, r.err),
                    << ReqEv(req), ReturnEv("GetProjects", <<>>, r.err) >>)
          ELSE IF Len(projects) = 0
          THEN Step(Pop, RetVal(result, NilErr),
                    << ReqEv(req), ReturnEv("GetProjects", result, NilErr) >>)
          ELSE Step(SetTop([Top EXCEPT !.list = Top.list \o projects,
                                       !.page = Top.page + 1]),
                    ret, << ReqEv(req) >>)

----------------------------------------------------------------------------
(* GetGroups *)

GetGroupsFrame(searchTerm, allGroups) ==
    [fn |-> "GetGroups", pc |-> "start", searchTerm |-> searchTerm,
     all |-> allGroups, page |-> 1, list |-> <<>>]

\* the manual filter on full_path
FilterGroups(list, searchTerm) ==
    SelectSeq(list, LAMBDA group :
        Contains(ToLower(group.FullPath), ToLower(searchTerm)))

\* with allGroups, the count probe and the call of the gate
GetGroupsStart ==
    /\ Running("GetGroups", "start")
    /\ IF ~Top.all
       THEN Step(SetTop([Top EXCEPT !.pc = "page"]), ret, <<>>)
       ELSE LET c == CheckResourceCount("groups", Top.all, Top.searchTerm)
                resourceDesc ==
                    IF Top.searchTerm # <<>>
                    THEN Desc("groups matching", 0, Top.searchTerm)
                    ELSE Desc("groups", 0, <<>>)
            IN IF c.err # NilErr
               THEN Step(SetTop([Top EXCEPT !.pc = "page"]), ret, c.reqs)
               ELSE Step(Call("confirmed", ConfirmFrame(resourceDesc, c.total)),
                         ret, c.reqs \o << ConfirmCallEv(c.total) >>)

\* GetGroupsConfirmed going on whatever the gate returned
GetGroupsConfirmedIgnored ==
    /\ Running("GetGroups", "confirmed")
    /\ Step(SetTop([Top EXCEPT !.pc = "page"]), ret, <<>>)

\* back from the gate
GetGroupsConfirmed ==
    /\ Running("GetGroups", "confirmed")
    /\ IF ~ret.val
       THEN Step(Pop, RetVal(<<>>, ErrCancelled),
                 << ReturnEv("GetGroups", <<>>, ErrCancelled) >>)
       ELSE Step(SetTop([Top EXCEPT !.pc = "page"]), ret, <<>>)

\* GetGroupsPage returning what it has accumulated along with the error
GetGroupsPagePartial ==
    /\ Running("GetGroups", "page")
    /\ LET apiSearchUsed == Top.searchTerm # <<>>
           req == Request("groups", 0, listPerPage, Top.page,
                          IF apiSearchUsed THEN Top.searchTerm ELSE <<>>,
                          ~Top.all)
           r   == Get(Respond(req))
           groups == DecodeGroups(r.objs)
       IN IF r.err # NilErr
          THEN Step(Pop, RetVal(Top.list, r.err),
                    << ReqEv(req), ReturnEv("GetGroups", Top.list, r.err) >>)
          ELSE IF Len(groups) = 0
          THEN IF apiSearchUsed /\ Len(Top.list) = 0
               THEN Step(Call("fallback", GetGroupsFrame(<<>>, Top.all)), ret,
                         << ReqEv(req), CallEv("GetGroups", <<>>, Top.all) >>)
               ELSE Step(Pop, RetVal(Top.list, NilErr),
                         << ReqEv(req), ReturnEv("GetGroups", Top.list, NilErr) >>)
          ELSE Step(SetTop([Top EXCEPT !.list = Top.list \o groups,
                                       !.page = Top.page + 1]),
                    ret, << ReqEv(req) >>)

\* GetGroupsPage making the recursive call whenever a search term was given
GetGroupsPageAlwaysFallback ==
    /\ Running("GetGroups", "page")
    /\ LET apiSearchUsed == Top.searchTerm # <<>>
           req == Request("groups", 0, listPerPage, Top.page,
                          IF apiSearchUsed THEN Top.searchTerm ELSE <<>>,
                          ~Top.all)
           r   == Get(Respond(req))
           groups == DecodeGroups(r.objs)
       IN IF r.err # NilErr
          THEN Step(Pop, RetVal(<<>>, r.err),
                    << ReqEv(req), ReturnEv("GetGroups", <<>>, r.err) >>)
          ELSE IF Len(groups) = 0
          THEN IF apiSearchUsed
               THEN Step(Call("fallback", GetGroupsFrame(<<>>, Top.all)), ret,
                         << ReqEv(req), CallEv("GetGroups", <<>>, Top.all) >>)
               ELSE Step(Pop, RetVal(Top.list, NilErr),
                         << ReqEv(req), ReturnEv("GetGroups", Top.list, NilErr) >>)
          ELSE Step(SetTop([Top EXCEPT !.list = Top.list \o groups,
                                       !.page = Top.page + 1]),
                    ret, << ReqEv(req) >>)

\* GetGroupsPage fetching again with the search term it was given
GetGroupsPageSameTerm ==
    /\ Running("GetGroups", "page")
    /\ LET apiSearchUsed == Top.searchTerm # <<>>
           req == Request("groups", 0, listPerPage, Top.page,
                          IF apiSearchUsed THEN Top.searchTerm ELSE <<>>,
                          ~Top.all)
           r   == Get(Respond(req))
           groups == DecodeGroups(r.objs)
       IN IF r.err # NilErr
          THEN Step(Pop, RetVal(<<>>, r.err),
                    << ReqEv(req), ReturnEv("GetGroups", <<>>, r.err) >>)
          ELSE IF Len(groups) = 0
          THEN IF apiSearchUsed /\ Len(Top.list) = 0
               THEN Step(Call("fallback", GetGroupsFrame(Top.searchTerm, Top.all)),
                         ret,
                         << ReqEv(req), CallEv("GetGroups", Top.searchTerm, Top.all) >>)
               ELSE Step(Pop, RetVal(Top.list, NilErr),
                         << ReqEv(req), ReturnEv("GetGroups", Top.list, NilErr) >>)
          ELSE Step(SetTop([Top EXCEPT !.list = Top.list \o groups,
                                       !.page = Top.page + 1]),
                    ret, << ReqEv(req) >>)

\* GetGroupsPage asking for the pages without the search term
GetGroupsPageNoSearch ==
    /\ Running("GetGroups", "page")
    /\ LET apiSearchUsed == Top.searchTerm # <<>>
           req == Request("groups", 0, listPerPage, Top.page, <<>>, ~Top.all)
           r   == Get(Respond(req))
           groups == DecodeGroups(r.objs)
       IN IF r.err # NilErr
          THEN Step(Pop, RetVal(<<>>, r.err),
                    << ReqEv(req), ReturnEv("GetGroups", <<>>, r.err) >>)
          ELSE IF Len(groups) = 0
          THEN IF apiSearchUsed /\ Len(Top.list) = 0
               THEN Step(Call("fallback", GetGroupsFrame(<<>>, Top.all)), ret,
                         << ReqEv(req), CallEv("GetGroups", <<>>, Top.all) >>)
               ELSE Step(Pop, RetVal(Top.list, NilErr),
                         << ReqEv(req), ReturnEv("GetGroups", Top.list, NilErr) >>)
          ELSE Step(SetTop([Top EXCEPT !.list = Top.list \o groups,
                                       !.page = Top.page + 1]),
                    ret, << ReqEv(req) >>)

\* one turn of the page loop; after the empty page, the recursive call when
\* the search sent to the server found nothing
GetGroupsPage ==
    /\ Running("GetGroups", "page")
    /\ LET apiSearchUsed == Top.searchTerm # <<>>
           req == Request("groups", 0, listPerPage, Top.page,
                          IF apiSearchUsed THEN Top.searchTerm ELSE <<>>,
                          ~Top.all)
           r   == Get(Respond(req))
           groups == DecodeGroups(r.objs)
       IN IF r.err # NilErr
          THEN Step(Pop, RetVal(<<>>, r.err),
                    << ReqEv(req), ReturnEv("GetGroups", <<>>, r.err) >>)
          ELSE IF Len(groups) = 0
          THEN IF apiSearchUsed /\ Len(Top.list) = 0
               THEN Step(Call("fallback", GetGroupsFrame(<<>>, Top.all)), ret,
                         << ReqEv(req), CallEv("GetGroups", <<>>, Top.all) >>)
               ELSE Step(Pop, RetVal(Top.list, NilErr),
                         << ReqEv(req), ReturnEv("GetGroups", Top.list, NilErr) >>)
          ELSE Step(SetTop([Top EXCEPT !.list = Top.list \o groups,
                                       !.page = Top.page + 1]),
                    ret, << ReqEv(req) >>)

\* GetGroupsFallback wrapping every error of the recursive call
GetGroupsFallbackWrapAll ==
    /\ Running("GetGroups", "fallback")
    /\ LET wrapped == Wrap("error fetching groups for manual filtering", <<>>,
                           ret.err)
       IN IF ret.err # NilErr
          THEN Step(Pop, RetVal(<<>>, wrapped),
                    << ReturnEv("GetGroups", <<>>, wrapped) >>)
          ELSE Step(Pop, RetVal(FilterGroups(ret.val, Top.searchTerm), NilErr),
                    << ReturnEv("GetGroups",
                                FilterGroups(ret.val, Top.searchTerm), NilErr) >>)

\* back from the recursive call: its cancellation as it is, any other error
\* wrapped, else the manual filter
GetGroupsFallback ==
    /\ Running("GetGroups", "fallback")
    /\ LET wrapped == Wrap("error fetching groups for manual filtering", <<>>,
                           ret.err)
       IN IF ret.err # NilErr
          THEN IF IsCancelMsg(ret.err)
               THEN Step(Pop, RetVal(<<>>, ret.err),
                         << ReturnEv("GetGroups", <<>>, ret.err) >>)
               ELSE Step(Pop, RetVal(<<>>, wrapped),
                         << ReturnEv("GetGroups", <<>>, wrapped) >>)
          ELSE Step(Pop, RetVal(FilterGroups(ret.val, Top.searchTerm), NilErr),
                    << ReturnEv("GetGroups",
                                FilterGroups(ret.val, Top.searchTerm), NilErr) >>)

Fetchers ==
    \/ GetProjectsForGroupProbe \/ GetProjectsForGroupConfirmed
    \/ GetProjectsForGroupPage
    \/ GetSubgroupsProbe \/ GetSubgroupsConfirmed \/ GetSubgroupsPage
    \/ GetProjectsStart \/ GetProjectsConfirmed \/ GetProjectsPage
    \/ GetGroupsStart \/ GetGroupsConfirmed \/ GetGroupsPage
    \/ GetGroupsFallback

----------------------------------------------------------------------------
(* PopulateGroupHierarchy *)

\* the less function of both sorts: lower-cased names, bytewise
NameLess(a, b) == StrLess(ToLower(a.Name), ToLower(b.Name))

\* InsertStable putting x in front of the elements it is equal to
InsertBeforeEquals(sorted, x) ==
    LET less == {j \in 1..Len(sorted) : NameLess(sorted[j], x)}
        n == Cardinality(less)
    IN SubSeq(sorted, 1, n) \o << x >> \o SubSeq(sorted, n + 1, Len(sorted))

\* x put into a sorted list behind every element that is not greater
InsertStable(sorted, x) ==
    LET notGreater == {j \in 1..Len(sorted) : ~NameLess(x, sorted[j])}
        n == Cardinality(notGreater)
    IN SubSeq(sorted, 1, n) \o << x >> \o SubSeq(sorted, n + 1, Len(sorted))

\* sort.SliceStable with NameLess
RECURSIVE SortStable(_)
SortStable(s) ==
    IF s = <<>> THEN <<>>
    ELSE InsertStable(SortStable(SubSeq(s, 1, Len(s) - 1)), s[Len(s)])

\* group is what the pointer argument points to; subgroups and i are the
\* loop's slice and index (counted from 1)
PopulateFrame(group, allItems) ==
    [fn |-> "PopulateGroupHierarchy", pc |-> "start", group |-> group,
     all |-> allItems, firstError |-> NilErr, subgroups |-> <<>>, i |-> 0]

\* return err: the caller sees the group as the call left it
PopulateReturn(group, err) ==
    Step(Pop, RetVal(group, err),
         << ReturnEv("PopulateGroupHierarchy", group, err) >>)

\* RecordFirst with the test left out: the error recorded last is kept
RecordLast(f, err) == [f EXCEPT !.firstError = err]

\* if firstError == nil { firstError = err }
RecordFirst(f, err) ==
    IF f.firstError = NilErr THEN [f EXCEPT !.firstError = err] ELSE f

\* SetProjects adding the fetched projects to those the group holds
SetProjectsAppend(f, projects) ==
    [f EXCEPT !.group.Projects = f.group.Projects \o projects]

\* group.Projects = projects
SetProjects(f, projects) == [f EXCEPT !.group.Projects = projects]

\* the call of getProjectsForGroup
PopulateStart ==
    /\ Running("PopulateGroupHierarchy", "start")
    /\ Step(Call("gotProjects", GetProjectsForGroupFrame(Top.group.ID, Top.all)),
            ret, << CallEv("getProjectsForGroup", <<Top.group.ID>>, Top.all) >>)

\* PopulateGotProjects returning as soon as the projects fetch has failed
PopulateGotProjectsEarly ==
    /\ Running("PopulateGroupHierarchy", "gotProjects")
    /\ IF ret.err # NilErr
       THEN PopulateReturn(Top.group,
                IF IsCancelMsg(ret.err) THEN ret.err
                ELSE Wrap("failed getting projects for group",
                          <<Top.group.ID>>, ret.err))
       ELSE Step(Append(SetTop([SetProjects(Top, ret.val) EXCEPT
                                   !.pc = "gotSubgroups"]),
                        GetSubgroupsFrame(Top.group.ID, Top.all)),
                 ret, << CallEv("getSubgroups", <<Top.group.ID>>, Top.all) >>)

\* back from getProjectsForGroup, up to the call of getSubgroups
PopulateGotProjects ==
    /\ Running("PopulateGroupHierarchy", "gotProjects")
    /\ IF ret.err # NilErr /\ IsCancelMsg(ret.err)
       THEN PopulateReturn(Top.group, ret.err)
       ELSE LET f == IF ret.err # NilErr
                     THEN RecordFirst(Top, Wrap("failed getting projects for group",
                                                <<Top.group.ID>>, ret.err))
                     ELSE SetProjects(Top, ret.val)
            IN Step(Append(SetTop([f EXCEPT !.pc = "gotSubgroups"]),
                           GetSubgroupsFrame(Top.group.ID, Top.all)),
                    ret, << CallEv("getSubgroups", <<Top.group.ID>>, Top.all) >>)

\* PopulateGotSubgroups returning the error of the subgroups fetch whatever
\* was recorded before
PopulateGotSubgroupsOwnError ==
    /\ Running("PopulateGroupHierarchy", "gotSubgroups")
    /\ IF ret.err # NilErr
       THEN IF IsCancelMsg(ret.err)
            THEN PopulateReturn(Top.group, ret.err)
            ELSE PopulateReturn(Top.group,
                     Wrap("failed getting subgroups for group",
                          <<Top.group.ID>>, ret.err))
       ELSE Step(SetTop([Top EXCEPT !.pc = "loop", !.subgroups = ret.val, !.i = 1,
                             !.group.Subgroups =
                                 [k \in 1..Len(ret.val) |-> ZeroGroup]]),
                 ret, <<>>)

\* back from getSubgroups: the early returns, or the allocation of
\* group.Subgroups before the loop
PopulateGotSubgroups ==
    /\ Running("PopulateGroupHierarchy", "gotSubgroups")
    /\ IF ret.err # NilErr
       THEN IF IsCancelMsg(ret.err)
            THEN PopulateReturn(Top.group, ret.err)
            ELSE PopulateReturn(Top.group,
                     RecordFirst(Top, Wrap("failed getting subgroups for group",
                                           <<Top.group.ID>>, ret.err)).firstError)
       ELSE Step(SetTop([Top EXCEPT !.pc = "loop", !.subgroups = ret.val, !.i = 1,
                             !.group.Subgroups =
                                 [k \in 1..Len(ret.val) |-> ZeroGroup]]),
                 ret, <<>>)

\* PopulateLoop leaving the loop once an error is recorded
PopulateLoopStopOnError ==
    /\ Running("PopulateGroupHierarchy", "loop")
    /\ IF Top.i <= Len(Top.subgroups) /\ Top.firstError = NilErr
       THEN Step(Call("gotChild", PopulateFrame(Top.subgroups[Top.i], Top.all)),
                 ret, << CallEv("PopulateGroupHierarchy", Top.subgroups[Top.i],
                                Top.all) >>)
       ELSE PopulateReturn([Top.group EXCEPT
                               !.Subgroups = SortStable(Top.group.Subgroups),
                               !.Projects = SortStable(Top.group.Projects)],
                           Top.firstError)

\* PopulateLoop with a guard against cycles: a subgroup whose ID belongs to
\* a group being populated further up the stack is passed over
PopulateLoopVisited ==
    /\ Running("PopulateGroupHierarchy", "loop")
    /\ IF Top.i <= Len(Top.subgroups)
       THEN IF \E k \in DOMAIN stack :
                    /\ stack[k].fn = "PopulateGroupHierarchy"
                    /\ stack[k].group.ID = Top.subgroups[Top.i].ID
            THEN Step(SetTop([Top EXCEPT !.i = Top.i + 1]), ret, <<>>)
            ELSE Step(Call("gotChild", PopulateFrame(Top.subgroups[Top.i], Top.all)),
                      ret, << CallEv("PopulateGroupHierarchy", Top.subgroups[Top.i],
                                     Top.all) >>)
       ELSE PopulateReturn([Top.group EXCEPT
                               !.Subgroups = SortStable(Top.group.Subgroups),
                               !.Projects = SortStable(Top.group.Projects)],
                           Top.firstError)

\* PopulateLoop taking the subgroups from the end of the list
PopulateLoopLastFirst ==
    /\ Running("PopulateGroupHierarchy", "loop")
    /\ IF Top.i <= Len(Top.subgroups)
       THEN LET sub == Top.subgroups[Len(Top.subgroups) + 1 - Top.i]
            IN Step(Call("gotChild", PopulateFrame(sub, Top.all)),
                    ret, << CallEv("PopulateGroupHierarchy", sub, Top.all) >>)
       ELSE PopulateReturn([Top.group EXCEPT
                               !.Subgroups = SortStable(Top.group.Subgroups),
                               !.Projects = SortStable(Top.group.Projects)],
                           Top.firstError)

\* the head of the loop: the recursive call on a copy of subgroups[i], or,
\* after the last subgroup, the two sorts and the return
PopulateLoop ==
    /\ Running("PopulateGroupHierarchy", "loop")
    /\ IF Top.i <= Len(Top.subgroups)
       THEN Step(Call("gotChild", PopulateFrame(Top.subgroups[Top.i], Top.all)),
                 ret, << CallEv("PopulateGroupHierarchy", Top.subgroups[Top.i],
                                Top.all) >>)
       ELSE PopulateReturn([Top.group EXCEPT
                               !.Subgroups = SortStable(Top.group.Subgroups),
                               !.Projects = SortStable(Top.group.Projects)],
                           Top.firstError)

\* PopulateGotChild returning the error recorded first, when there is one,
\* in place of the cancellation
PopulateGotChildFirstError ==
    /\ Running("PopulateGroupHierarchy", "gotChild")
    /\ IF ret.err # NilErr /\ IsCancelMsg(ret.err)
       THEN PopulateReturn(Top.group,
                IF Top.firstError # NilErr THEN Top.firstError ELSE ret.err)
       ELSE LET f == IF ret.err # NilErr
                     THEN RecordFirst(Top, Wrap("failed to populate subgroup",
                                                ret.val.Name, ret.err))
                     ELSE Top
            IN Step(SetTop([f EXCEPT !.pc = "loop", !.i = Top.i + 1,
                                  !.group.Subgroups[Top.i] = ret.val]),
                    ret, <<>>)

\* PopulateGotChild with the slice holding the loop's one variable: every
\* entry written so far shows the subgroup populated last
PopulateGotChildAliased ==
    /\ Running("PopulateGroupHierarchy", "gotChild")
    /\ IF ret.err # NilErr /\ IsCancelMsg(ret.err)
       THEN PopulateReturn(Top.group, ret.err)
       ELSE LET f == IF ret.err # NilErr
                     THEN RecordFirst(Top, Wrap("failed to populate subgroup",
                                                ret.val.Name, ret.err))
                     ELSE Top
            IN Step(SetTop([f EXCEPT !.pc = "loop", !.i = Top.i + 1,
                                  !.group.Subgroups =
                                      [k \in 1..Len(Top.group.Subgroups) |->
                                          IF k <= Top.i THEN ret.val
                                          ELSE Top.group.Subgroups[k]]]),
                    ret, <<>>)

\* PopulateGotChild calling once more for a subgroup whose population
\* failed, when it is the first failure of the node
PopulateGotChildRetry ==
    /\ Running("PopulateGroupHierarchy", "gotChild")
    /\ IF ret.err # NilErr /\ IsCancelMsg(ret.err)
       THEN PopulateReturn(Top.group, ret.err)
       ELSE LET f == IF ret.err # NilErr
                     THEN RecordFirst(Top, Wrap("failed to populate subgroup",
                                                ret.val.Name, ret.err))
                     ELSE Top
            IN Step(SetTop([f EXCEPT !.pc = "loop",
                                  !.i = IF ret.err # NilErr /\ Top.firstError = NilErr
                                        THEN Top.i ELSE Top.i + 1,
                                  !.group.Subgroups[Top.i] = ret.val]),
                    ret, <<>>)

\* back from the recursive call: ret.val is currentSubgroup as the call
\* left it
PopulateGotChild ==
    /\ Running("PopulateGroupHierarchy", "gotChild")
    /\ IF ret.err # NilErr /\ IsCancelMsg(ret.err)
       THEN PopulateReturn(Top.group, ret.err)
       ELSE LET f == IF ret.err # NilErr
                     THEN RecordFirst(Top, Wrap("failed to populate subgroup",
                                                ret.val.Name, ret.err))
                     ELSE Top
            IN Step(SetTop([f EXCEPT !.pc = "loop", !.i = Top.i + 1,
                                  !.group.Subgroups[Top.i] = ret.val]),
                    ret, <<>>)

Populate ==
    \/ PopulateStart \/ PopulateGotProjects \/ PopulateGotSubgroups
    \/ PopulateLoop \/ PopulateGotChild

GroupFetchers ==
    \/ GetProjectsForGroupProbe \/ GetProjectsForGroupConfirmed
    \/ GetProjectsForGroupPage
    \/ GetSubgroupsProbe \/ GetSubgroupsConfirmed \/ GetSubgroupsPage

----------------------------------------------------------------------------
(* The animator goroutine of showStatus and its stop function. *)

\* case <-ticker.C
AnimTick ==
    /\ anim = "running"
    /\ progressIndex < MaxTicks
    /\ ~paused
    /\ progressIndex' = progressIndex + 1
    /\ statusLine' = "frame"
    /\ UNCHANGED <<stack, ret, log, srv, pauseStatus, ch, anim, paused, done, calls>>

\* AnimRecv staying paused once it is: a resume signal is taken from the
\* channel and ignored
AnimRecvStaysPaused ==
    /\ anim = "running"
    /\ ch # <<>>
    /\ paused' = (paused \/ Head(ch))
    /\ ch' = Tail(ch)
    /\ statusLine' = "clear"
    /\ UNCHANGED <<stack, ret, log, srv, pauseStatus, anim, progressIndex, done, calls>>

\* case p, ok := <-pauseControl
AnimRecv ==
    /\ anim = "running"
    /\ ch # <<>>
    /\ paused' = Head(ch)
    /\ ch' = Tail(ch)
    /\ statusLine' = IF Head(ch) THEN "clear" ELSE "message"
    /\ UNCHANGED <<stack, ret, log, srv, pauseStatus, anim, progressIndex, done, calls>>

\* case <-done, and the deferred clearLine
AnimDone ==
    /\ anim = "running"
    /\ done
    /\ anim' = "exited"
    /\ statusLine' = "clear"
    /\ UNCHANGED <<stack, ret, log, srv, pauseStatus, ch, paused, progressIndex,
                   done, calls>>

\* StopStatus closing the control channel in place of done
StopStatusClosing ==
    /\ IF anim = "off" \/ done
       THEN done' = done /\ pauseStatus' = pauseStatus
       ELSE done' = TRUE /\ pauseStatus' = "closed"
    /\ UNCHANGED <<stack, ret, log, srv, ch, animVars, calls>>

\* the function showStatus returns (clearStatus); a no-op when the animator
\* was never started
StopStatus ==
    /\ IF anim = "off" \/ done THEN done' = done ELSE done' = TRUE
    /\ UNCHANGED <<stack, ret, log, srv, pauseStatus, ch, animVars, calls>>

Animator == AnimTick \/ AnimRecv \/ AnimDone

----------------------------------------------------------------------------
(* The gate on its own: a caller invokes confirmLargeFetch with a count,    *)
(* up to MaxGateCalls times in a row, and may stop the animator in between. *)

Counts == {0, 50, 51, 120}

GateDesc == [kind |-> "projects", gid |-> 0, search |-> <<>>]

NoServer == <<>>

InitGate ==
    /\ stack = <<>>
    /\ ret = NoRet
    /\ log = <<>>
    /\ srv = NoServer
    /\ pauseStatus \in {"nil", "chan"}
    /\ ch = <<>>
    /\ anim \in {"off", "running"}
    /\ paused = FALSE
    /\ progressIndex = 0
    /\ done = FALSE
    /\ statusLine = "clear"
    /\ calls = 0

CallConfirm ==
    /\ stack = <<>>
    /\ calls < MaxGateCalls
    /\ \E totalCount \in Counts :
          /\ stack' = << ConfirmFrame(GateDesc, totalCount) >>
          /\ log' = Append(log, [ev |-> "call", fn |-> "confirmLargeFetch",
                                 totalCount |-> totalCount])
    /\ calls' = calls + 1
    /\ UNCHANGED <<ret, srv, pauseStatus, ch, animVars, done>>

CallStop ==
    /\ stack = <<>>
    /\ calls < MaxGateCalls
    /\ anim = "running"
    /\ ~done
    /\ StopStatus

Gate == ConfirmEntry \/ ConfirmAsk \/ ConfirmResume

NextGate == CallConfirm \/ CallStop \/ Gate \/ Animator

SpecGate == InitGate /\ [][NextGate]_vars

\* the same start, the register of return values holding a value of the
\* gate's type (no call has returned yet and nothing reads it)
InitGateLive ==
    /\ stack = <<>>
    /\ ret = RetVal(FALSE, NilErr)
    /\ log = <<>>
    /\ srv = NoServer
    /\ pauseStatus \in {"nil", "chan"}
    /\ ch = <<>>
    /\ anim \in {"off", "running"}
    /\ paused = FALSE
    /\ progressIndex = 0
    /\ done = FALSE
    /\ statusLine = "clear"
    /\ calls = 0

\* the main goroutine keeps running: a step of confirmLargeFetch that can be
\* taken is taken (the confirmation policy answers)
SpecGateLive == InitGateLive /\ [][NextGate]_vars /\ WF_stack(Gate)

\* both goroutines keep running: the animator, too, takes a step it can take
\* (a tick, a signal waiting in the channel, the closed done channel)
SpecGateFair ==
    /\ InitGateLive /\ [][NextGate]_vars
    /\ WF_stack(Gate)
    /\ WF_<<animVars, ch>>(Animator)

----------------------------------------------------------------------------
(* The stop function of showStatus called again and again: each run mode   *)
(* calls clearStatus explicitly and once more through defer, while the     *)
(* gate may signal and the animator runs.                                   *)

\* calls of the gate and of the stop function in a row
MaxStops == 3

\* clearStatus without the test of done: close(done) on every call, which
\* panics on a closed channel
ClearStatusNoCheck ==
    /\ stack = <<>>
    /\ calls < MaxStops
    /\ IF anim = "off"
       THEN /\ log' = Append(log, [ev |-> "stop", closed |-> FALSE])
            /\ calls' = calls + 1
       ELSE IF done
       THEN /\ log' = Append(log, [ev |-> "panic", what |-> "close of closed channel"])
            /\ calls' = MaxStops
       ELSE /\ log' = Append(log, [ev |-> "stop", closed |-> TRUE])
            /\ calls' = calls + 1
    /\ done' = (anim # "off")
    /\ UNCHANGED <<stack, ret, srv, pauseStatus, ch, animVars>>

\* a call of the function showStatus returned: nothing when stderr is not a
\* terminal (no animator) or when done is closed already, else close(done);
\* the history tells whether the call closed the channel
ClearStatus ==
    /\ stack = <<>>
    /\ calls < MaxStops
    /\ calls' = calls + 1
    /\ log' = Append(log, [ev |-> "stop", closed |-> (anim # "off" /\ ~done)])
    /\ done' = IF anim = "off" \/ done THEN done ELSE TRUE
    /\ UNCHANGED <<stack, ret, srv, pauseStatus, ch, animVars>>

NextStop == ClearStatus \/ CallConfirm \/ Gate \/ Animator

\* the select of the animator takes a case that is ready: once done is
\* closed, the case <-done is ready until it is taken
SpecStop ==
    /\ InitGateLive /\ [][NextStop]_vars
    /\ WF_stack(Gate)
    /\ WF_<<animVars, ch>>(AnimDone)

----------------------------------------------------------------------------
(* The flat fetchers on their own: one call of one fetcher against a       *)
(* server drawn from FetchWorlds.                                          *)

\* the largest page size of the server, and the last page that may fail
MaxSrvPageSize == 2
MaxFailAt == 2

\* "teama", "plat"
TermTeama == <<116, 101, 97, 109, 97>>
TermPlat == <<112, 108, 97, 116>>
Terms == {TermTeama, TermPlat}

\* the paths of the filtering example: teamA/app, teamB/App2, x/teamAthing
PathTeamAApp == <<116, 101, 97, 109, 65, 47, 97, 112, 112>>
PathTeamBApp2 == <<116, 101, 97, 109, 66, 47, 65, 112, 112, 50>>
PathXTeamAthing == <<120, 47, 116, 101, 97, 109, 65, 116, 104, 105, 110, 103>>
\* Platform, x/PLAT, other, x/teama, TEAMA
PathPlatform == <<80, 108, 97, 116, 102, 111, 114, 109>>
PathXPLAT == <<120, 47, 80, 76, 65, 84>>
PathOther == <<111, 116, 104, 101, 114>>
PathXTeama == <<120, 47, 116, 101, 97, 109, 97>>
PathTEAMA == <<84, 69, 65, 77, 65>>

\* the example: the second object matches the term by its name only
ObjsExample ==
    << JsonObject(1, 0, <<97, 112, 112>>, PathTeamAApp, PathTeamAApp),
       JsonObject(2, 0, TermTeama, PathTeamBApp2, PathTeamBApp2),
       JsonObject(3, 0, PathOther, PathXTeamAthing, PathXTeamAthing) >>

\* objects whose two paths differ: each term is in one path and not in the other
ObjsMixed ==
    << JsonObject(4, 0, TermPlat, PathOther, PathXTeama),
       JsonObject(5, 0, PathOther, PathTEAMA, PathXPLAT),
       JsonObject(6, 0, TermTeama, PathPlatform, PathOther) >>

\* what a server-side search finds
ObjsHit == << JsonObject(7, 0, PathOther, PathOther, PathOther) >>

\* the objects of the pagination scenario: pages of 100, 100 and 37
ScenarioSizes == <<100, 100, 37>>
ObjsScenario ==
    [i \in 1..237 |-> JsonObject(i, 0, PathOther, PathOther, PathOther)]

\* the list cut into pages of n
Paginate(objs, n) ==
    [p \in 1..((Len(objs) + n - 1) \div n) |->
        SubSeq(objs, (p - 1) * n + 1, IF p * n < Len(objs) THEN p * n ELSE Len(objs))]

\* a server that sends an empty page after the first one and the rest later
WithEmptyPage(pages) ==
    IF pages = <<>> THEN <<>>
    ELSE << pages[1], <<>> >> \o Tail(pages)

PageSets ==
    {Paginate(objs, n) : objs \in {<<>>, ObjsExample, ObjsMixed},
                         n \in 1..MaxSrvPageSize}
    \cup {WithEmptyPage(Paginate(objs, 1)) : objs \in {ObjsExample, ObjsMixed}}
    \cup {Paginate(ObjsScenario, listPerPage)}

\* X-Total: absent, "5x", "50", "51", "120"
TotalHeaders == {<<>>, <<53, 120>>, <<53, 48>>, <<53, 49>>, <<49, 50, 48>>}

ProbeFailed == Response("do", 0, FALSE, <<>>, <<>>)

ProbeResponses ==
    {ProbeFailed} \cup {Response("none", StatusOK, TRUE, <<>>, h) : h \in TotalHeaders}

PageFailed == Response("none", 500, TRUE, <<>>, <<>>)

EndpointData(probe, pages, failAt) ==
    [probe |-> probe, pages |-> pages, failAt |-> failAt, failResp |-> PageFailed]

\* the endpoints a search term reaches: found nothing, found something,
\* found nothing and large, failed
SearchedData ==
    { EndpointData(Response("none", StatusOK, TRUE, <<>>, <<>>), <<>>, 0),
      EndpointData(Response("none", StatusOK, TRUE, <<>>, <<>>), << ObjsHit >>, 0),
      EndpointData(Response("none", StatusOK, TRUE, <<>>, <<49, 50, 48>>), <<>>, 0),
      EndpointData(Response("none", StatusOK, TRUE, <<>>, <<>>), <<>>, 1) }

FetchGroupID == 7

FetchEndpoints ==
    {<<"projects", 0, <<>>>>, <<"groups", 0, <<>>>>,
     <<"subgroups", FetchGroupID, <<>>>>, <<"groupProjects", FetchGroupID, <<>>>>}
    \cup {<<"groups", 0, t>> : t \in Terms}

FetchWorlds ==
    { [e \in FetchEndpoints |-> IF e[3] = <<>> THEN plain ELSE searched] :
        plain \in {EndpointData(probe, pages, failAt) :
                      probe \in ProbeResponses, pages \in PageSets,
                      failAt \in 0..MaxFailAt},
        searched \in SearchedData }

InitFetch ==
    /\ stack = <<>>
    /\ ret = NoRet
    /\ log = <<>>
    /\ srv \in FetchWorlds
    /\ pauseStatus = "chan"
    /\ ch = <<>>
    /\ anim = "off"
    /\ paused = FALSE
    /\ progressIndex = 0
    /\ done = FALSE
    /\ statusLine = "clear"
    /\ calls = 0

\* the caller: one call of a fetcher
CallFetch ==
    /\ stack = <<>>
    /\ calls = 0
    /\ calls' = 1
    /\ ret' = ret
    /\ \E allItems \in BOOLEAN :
          \/ \E searchTerm \in Terms \cup {<<>>} :
                /\ stack' = << GetProjectsFrame(searchTerm, allItems) >>
                /\ log' = << CallEv("GetProjects", searchTerm, allItems) >>
          \/ \E searchTerm \in Terms \cup {<<>>} :
                /\ stack' = << GetGroupsFrame(searchTerm, allItems) >>
                /\ log' = << CallEv("GetGroups", searchTerm, allItems) >>
          \/ /\ stack' = << GetSubgroupsFrame(FetchGroupID, allItems) >>
             /\ log' = << CallEv("getSubgroups", <<>>, allItems) >>
          \/ /\ stack' = << GetProjectsForGroupFrame(FetchGroupID, allItems) >>
             /\ log' = << CallEv("getProjectsForGroup", <<>>, allItems) >>
    /\ UNCHANGED <<srv, pauseStatus, ch, animVars, done>>

NextFetch == CallFetch \/ Fetchers \/ Gate

SpecFetch == InitFetch /\ [][NextFetch]_vars

----------------------------------------------------------------------------
(* The fetchers against a server whose list pages fail in every way        *)
(* Client.get tells apart, the failing response carrying a body of its own. *)

\* the body of a failing response: a JSON array of one object, which the
\* term "teama" matches
FailBody == << JsonObject(9, 0, TermTeama, TermTeama, TermTeama) >>

\* Created, No Content, Not Found, Internal Server Error
FailureStatuses == {201, 204, 404, 500}

\* a status that is not 200; no response at all; a body that breaks off; a
\* 200 whose body is not JSON (objs: what a lenient reader would make of it)
FailureResponses ==
    {Response("none", status, TRUE, FailBody, <<>>) : status \in FailureStatuses}
    \cup {Response("do", 0, FALSE, <<>>, <<>>),
          Response("read", StatusOK, TRUE, FailBody, <<>>),
          Response("none", StatusOK, FALSE, FailBody, <<>>)}

\* count responses: no total, a total above the threshold, and a 500 that
\* carries such a total
FailureProbes ==
    {Response("none", StatusOK, TRUE, <<>>, <<>>),
     Response("none", StatusOK, TRUE, <<>>, <<49, 50, 48>>),
     Response("none", 500, TRUE, FailBody, <<49, 50, 48>>)}

FailingData(probe, pages, failAt, failResp) ==
    [EndpointData(probe, pages, failAt) EXCEPT !.failResp = failResp]

\* what a search does: it finds something, fails at once, or finds nothing
SearchOutcomes == {"hit", "fail", "none"}

\* every list fails at some page
FailureWorlds ==
    { [e \in FetchEndpoints |->
          IF e[3] = <<>> THEN FailingData(probe, pages, failAt, failResp)
          ELSE FailingData(Response("none", StatusOK, TRUE, <<>>, <<>>),
                           IF search = "none" THEN <<>> ELSE << ObjsHit >>,
                           IF search = "fail" THEN 1 ELSE 0, failResp)] :
        probe \in FailureProbes,
        pages \in {Paginate(ObjsExample, n) : n \in 1..MaxSrvPageSize},
        failAt \in 1..MaxFailAt,
        failResp \in FailureResponses,
        search \in SearchOutcomes }

InitFailures ==
    /\ stack = <<>>
    /\ ret = NoRet
    /\ log = <<>>
    /\ srv \in FailureWorlds
    /\ pauseStatus = "chan"
    /\ ch = <<>>
    /\ anim = "off"
    /\ paused = FALSE
    /\ progressIndex = 0
    /\ done = FALSE
    /\ statusLine = "clear"
    /\ calls = 0

SpecFailures == InitFailures /\ [][NextFetch]_vars

----------------------------------------------------------------------------
(* Hierarchy population: up to MaxRuns calls of PopulateGroupHierarchy on  *)
(* the root of one remote hierarchy, the later ones on the same group      *)
(* value or on the value the call before left behind.                      *)

\* endpoints of a world that misbehave, and top-level calls in a row
MaxFaults == 2
MaxRuns == 2

\* the remote hierarchy, in the order the server lists it:
\*   1 "r": groups 2 "c", 3 "C", 4 "a"; projects "b", "A", "a"
\*   2 "c": projects "B", "a", "A"       3 "C": projects "z", "y"
\*   4 "a": group 5 "d"; project "q"     5 "d": projects "n", "m"
RemoteGroup(id, parent, name) == JsonObject(id, parent, name, name, name)

RemoteProject(id, name) == JsonObject(id, 0, name, name, name)

RootObject == RemoteGroup(1, 0, <<114>>)

RemoteSubgroups(gid) ==
    IF gid = 1 THEN << RemoteGroup(2, 1, <<99>>), RemoteGroup(3, 1, <<67>>),
                       RemoteGroup(4, 1, <<97>>) >>
    ELSE IF gid = 4 THEN << RemoteGroup(5, 4, <<100>>) >>
    ELSE <<>>

RemoteProjects(gid) ==
    IF gid = 1 THEN << RemoteProject(11, <<98>>), RemoteProject(12, <<65>>),
                       RemoteProject(13, <<97>>) >>
    ELSE IF gid = 2 THEN << RemoteProject(21, <<66>>), RemoteProject(22, <<97>>),
                            RemoteProject(23, <<65>>) >>
    ELSE IF gid = 3 THEN << RemoteProject(31, <<122>>), RemoteProject(32, <<121>>) >>
    ELSE IF gid = 4 THEN << RemoteProject(41, <<113>>) >>
    ELSE << RemoteProject(51, <<110>>), RemoteProject(52, <<109>>) >>

RemoteIDs == 1..5

PopulateEndpoints ==
    {<<kind, gid, <<>>>> : kind \in {"subgroups", "groupProjects"}, gid \in RemoteIDs}

RemoteList(e) ==
    IF e[1] = "subgroups" THEN RemoteSubgroups(e[2]) ELSE RemoteProjects(e[2])

\* how an endpoint behaves: "ok"; "probe", its count request fails; "page",
\* its first list page fails; "large", its count is above the threshold
FaultKinds == {"probe", "page", "large"}

FaultyData(e, fault) ==
    EndpointData(
        IF fault = "probe" THEN ProbeFailed
        ELSE Response("none", StatusOK, TRUE, <<>>,
                      IF fault = "large" THEN <<49, 50, 48>> ELSE <<>>),
        Paginate(RemoteList(e), MaxSrvPageSize),
        IF fault = "page" THEN 1 ELSE 0)

PopulateWorlds ==
    { [e \in PopulateEndpoints |-> IF e \in DOMAIN faults THEN FaultyData(e, faults[e])
                                   ELSE FaultyData(e, "ok")] :
        faults \in UNION { [S -> FaultKinds] :
                              S \in {T \in SUBSET PopulateEndpoints :
                                        Cardinality(T) <= MaxFaults} } }

RootGroup == DecodeGroups(<< RootObject >>)[1]

InitPopulate ==
    /\ stack = <<>>
    /\ ret = NoRet
    /\ log = <<>>
    /\ srv \in PopulateWorlds
    /\ pauseStatus = "chan"
    /\ ch = <<>>
    /\ anim = "off"
    /\ paused = FALSE
    /\ progressIndex = 0
    /\ done = FALSE
    /\ statusLine = "clear"
    /\ calls = 0

\* the caller: PopulateGroupHierarchy(&group, allItems), first on the root
\* as it was listed, later also on the group the call before has written
CallPopulate ==
    /\ stack = <<>>
    /\ calls < MaxRuns
    /\ calls' = calls + 1
    /\ ret' = ret
    /\ \E allItems \in (IF calls = 0 THEN BOOLEAN ELSE {log[1].all}) :
       \E group \in {RootGroup} \cup (IF calls = 0 THEN {} ELSE {ret.val}) :
          /\ stack' = << PopulateFrame(group, allItems) >>
          /\ log' = Append(log, CallEv("PopulateGroupHierarchy", group, allItems))
    /\ UNCHANGED <<srv, pauseStatus, ch, animVars, done>>

NextPopulate == CallPopulate \/ Populate \/ GroupFetchers \/ Gate

SpecPopulate == InitPopulate /\ [][NextPopulate]_vars

----------------------------------------------------------------------------
(* Hierarchy population on a remote hierarchy with a cycle: the server     *)
(* lists a group among its own descendants. The recursion is followed to   *)
(* MaxDepth nested calls of PopulateGroupHierarchy.                        *)

MaxDepth == 4

\* the shapes of the cycle: group 1 lists itself; group 1 lists group 2 and
\* group 2 lists group 1; group 1 lists group 2, which has no subgroups, and
\* then itself
CycleShapes == {"self", "two", "leafThenSelf"}

CycleIDs == 1..2

CycleSubgroups(shape, gid) ==
    IF shape = "self"
    THEN IF gid = 1 THEN << RemoteGroup(1, 1, <<114>>) >> ELSE <<>>
    ELSE IF shape = "two"
    THEN IF gid = 1 THEN << RemoteGroup(2, 1, <<99>>) >>
         ELSE << RemoteGroup(1, 2, <<114>>) >>
    ELSE IF gid = 1 THEN << RemoteGroup(2, 1, <<99>>), RemoteGroup(1, 1, <<114>>) >>
         ELSE <<>>

CycleEndpoints ==
    {<<kind, gid, <<>>>> : kind \in {"subgroups", "groupProjects"}, gid \in CycleIDs}

CycleList(shape, e) ==
    IF e[1] = "subgroups" THEN CycleSubgroups(shape, e[2]) ELSE RemoteProjects(e[2])

CycleData(shape, e, fault) ==
    EndpointData(
        IF fault = "probe" THEN ProbeFailed
        ELSE Response("none", StatusOK, TRUE, <<>>,
                      IF fault = "large" THEN <<49, 50, 48>> ELSE <<>>),
        Paginate(CycleList(shape, e), MaxSrvPageSize),
        IF fault = "page" THEN 1 ELSE 0)

\* every shape, with at most one endpoint that misbehaves
CycleWorlds ==
    { [e \in CycleEndpoints |-> CycleData(shape, e, "ok")] : shape \in CycleShapes }
    \cup
    { [e \in CycleEndpoints |-> CycleData(shape, e, IF e = bad THEN fault ELSE "ok")] :
        shape \in CycleShapes, bad \in CycleEndpoints, fault \in FaultKinds }

InitCycle ==
    /\ stack = <<>>
    /\ ret = NoRet
    /\ log = <<>>
    /\ srv \in CycleWorlds
    /\ pauseStatus = "chan"
    /\ ch = <<>>
    /\ anim = "off"
    /\ paused = FALSE
    /\ progressIndex = 0
    /\ done = FALSE
    /\ statusLine = "clear"
    /\ calls = 0

\* the caller: PopulateGroupHierarchy(&group, allItems) on group 1
CallCycle ==
    /\ stack = <<>>
    /\ calls = 0
    /\ calls' = 1
    /\ ret' = ret
    /\ \E allItems \in BOOLEAN :
          /\ stack' = << PopulateFrame(RootGroup, allItems) >>
          /\ log' = << CallEv("PopulateGroupHierarchy", RootGroup, allItems) >>
    /\ UNCHANGED <<srv, pauseStatus, ch, animVars, done>>

\* the calls of PopulateGroupHierarchy that have not returned
PopulateDepth ==
    Cardinality({k \in DOMAIN stack : stack[k].fn = "PopulateGroupHierarchy"})

NextCycle ==
    \/ CallCycle
    \/ PopulateDepth < MaxDepth /\ Populate
    \/ PopulateDepth < MaxDepth /\ GroupFetchers
    \/ PopulateDepth < MaxDepth /\ Gate

SpecCycle == InitCycle /\ [][NextCycle]_vars

----------------------------------------------------------------------------
(* The command: main and the four run modes of cmd/glids/main.go.          *)

\* os.Getenv: the empty string for a variable that is not set
Getenv(env, name) == IF name \in DOMAIN env THEN env[name] ELSE ""

\* the exit code of a Go program that panics
PanicExitCode == 2

\* CommitSHA[:7]: a slice expression panics when the string is shorter
ShortSHALen == 7

\* the frame of main: the parsed flags, the environment, what the terminal
\* calls answer (tty) and the build variable CommitSHA (its length)
MainFrame(flags, env, tty, commitSHALen) ==
    [fn |-> "main", pc |-> "start", flags |-> flags, env |-> env, tty |-> tty,
     commitSHALen |-> commitSHALen, baseURL |-> <<>>]

\* os.Exit(code), and the end of a panic: the process is gone, the
\* animator with it
Exit(code, events) ==
    /\ stack' = <<>>
    /\ ret' = ret
    /\ log' = log \o events \o << [ev |-> "exit", code |-> code] >>
    /\ anim' = IF anim = "running" THEN "killed" ELSE anim
    /\ UNCHANGED <<srv, pauseStatus, ch, paused, progressIndex, statusLine,
                   done, calls>>

\* a step of a run mode; stop tells whether it calls clearStatus
ModeStep(newStack, newRet, events, stop) ==
    /\ stack' = newStack
    /\ ret' = newRet
    /\ log' = log \o events
    /\ done' = IF stop /\ anim # "off" THEN TRUE ELSE done
    /\ UNCHANGED <<srv, pauseStatus, ch, animVars, calls>>

PrintEv(what, val) == [ev |-> "print", what |-> what, val |-> val]

\* the run mode main selects
ModeOf(flags) ==
    IF flags.hierarchy THEN "runHierarchyMode"
    ELSE IF flags.groups THEN "runGroupsMode"
    ELSE IF flags.projects THEN "runProjectsMode"
    ELSE "runBothMode"

ModeFrame(flags, tty) ==
    [fn |-> ModeOf(flags), pc |-> "start", searchTerm |-> flags.search,
     all |-> flags.all, tty |-> tty, groups |-> <<>>, projects |-> <<>>,
     i |-> 1, populatedGroups |-> <<>>]

\* GitlabHost with the environment variable ahead of the flag
GitlabHostEnvFirst(flags, env) ==
    IF Getenv(env, "GITLAB_HOST") = "" THEN flags.host
    ELSE Getenv(env, "GITLAB_HOST")

\* the host main uses: the flag, else GITLAB_HOST
GitlabHost(flags, env) ==
    IF flags.host = "" THEN Getenv(env, "GITLAB_HOST") ELSE flags.host

\* the base URL main builds
BaseURL(flags, env) ==
    [scheme |-> IF flags.nohttps \/ Getenv(env, "GLIDS_NOHTTPS") = "true"
                THEN "http" ELSE "https",
     host |-> GitlabHost(flags, env)]

\* main from flag.Parse to the call of the run mode: the version flag, the
\* host and token, the base URL, the client with its control channel, the
\* status animator (not with --debug, and only on a terminal)
Main ==
    /\ Running("main", "start")
    /\ LET flags == Top.flags
           env   == Top.env
       IN IF flags.version
          THEN /\ Exit(IF Top.commitSHALen < ShortSHALen THEN PanicExitCode ELSE 0,
                       IF Top.commitSHALen < ShortSHALen
                       THEN << [ev |-> "panic"] >>
                       ELSE << PrintEv("version", <<>>) >>)
          ELSE IF Getenv(env, "GITLAB_TOKEN") = "" \/ GitlabHost(flags, env) = ""
          THEN Exit(1, << PrintEv("error", "configuration") >>)
          ELSE /\ stack' = << [Top EXCEPT !.pc = "running",
                                         !.baseURL = BaseURL(flags, env)],
                              ModeFrame(flags, Top.tty) >>
               /\ log' = Append(log, [ev |-> "client",
                                      baseURL |-> BaseURL(flags, env)])
               /\ pauseStatus' = "chan"
               /\ anim' = IF ~flags.debug /\ Top.tty.isTerminal
                          THEN "running" ELSE anim
               /\ UNCHANGED <<ret, srv, ch, paused, progressIndex, statusLine,
                              done, calls>>

\* main returns after the run mode has: the process exits with code 0
MainReturn ==
    /\ Running("main", "running")
    /\ Exit(0, <<>>)

\* sort.Slice is not stable: any arrangement of s that Less puts in order
Arrangements(s) ==
    LET n == Len(s)
        perms == {p \in [1..n -> 1..n] : \A a \in 1..n : \A b \in 1..n :
                                            p[a] = p[b] => a = b}
    IN {[k \in 1..n |-> s[p[k]]] : p \in perms}

FullPathLess(a, b) == StrLess(ToLower(a.FullPath), ToLower(b.FullPath))

PathWithNamespaceLess(a, b) ==
    StrLess(ToLower(a.PathWithNamespace), ToLower(b.PathWithNamespace))

\* sort.Slice of groups by lower-cased FullPath
SortedByFullPath(s) ==
    {t \in Arrangements(s) :
        \A k \in 1..(Len(t) - 1) : ~FullPathLess(t[k + 1], t[k])}

\* sort.Slice of projects by lower-cased PathWithNamespace
SortedByPathWithNamespace(s) ==
    {t \in Arrangements(s) :
        \A k \in 1..(Len(t) - 1) : ~PathWithNamespaceLess(t[k + 1], t[k])}

\* a fetch of a run mode failed: exit code 0 for the cancellation, 1 else
ExitOnError(err) ==
    IF IsCancelMsg(err)
    THEN Exit(0, << PrintEv("cancelled", <<>>) >>)
    ELSE Exit(1, << PrintEv("error", err) >>)

\* terminalWidth of runHierarchyMode
TerminalWidth(tty) == IF tty.isTerminal /\ tty.sizeOK THEN tty.width ELSE 80

\* len(fmt.Sprintf("[%d/%d] Populating: %s...", i, n, path)), i and n below 100
DecimalLen(n) == IF n < 10 THEN 1 ELSE 2

StatusLineLen(i, n, path) == DecimalLen(i) + DecimalLen(n) + 19 + Len(path)

\* the truncation of the status line slices it at maxLen, at maxLen - 3 when
\* maxLen > 3; a negative bound panics
TruncationPanics(tty, len) ==
    LET maxLen == TerminalWidth(tty) - 1
    IN tty.isTerminal /\ len > maxLen /\ maxLen <= 3 /\ maxLen < 0

\* display.PrintHierarchy for each populated group, in order
HierarchyPrints(populatedGroups) ==
    [k \in 1..Len(populatedGroups) |-> PrintEv("hierarchy", populatedGroups[k])]

(* runHierarchyMode *)

RunHierarchyStart ==
    /\ Running("runHierarchyMode", "start")
    /\ ModeStep(Call("gotGroups", GetGroupsFrame(Top.searchTerm, Top.all)), ret,
                << CallEv("GetGroups", Top.searchTerm, Top.all) >>, FALSE)

\* back from GetGroups, up to the population loop
RunHierarchyGotGroups ==
    /\ Running("runHierarchyMode", "gotGroups")
    /\ IF ret.err # NilErr THEN ExitOnError(ret.err)
       ELSE IF Len(ret.val) = 0
       THEN ModeStep(Pop, ret, << PrintEv("none", Top.searchTerm) >>, TRUE)
       ELSE \E matchingGroups \in SortedByFullPath(ret.val) :
               ModeStep(SetTop([Top EXCEPT !.pc = "loop", !.i = 1,
                                           !.groups = matchingGroups]),
                        ret, << PrintEv("populating", <<>>) >>, TRUE)

\* the head of the population loop: the status line and the call of
\* PopulateGroupHierarchy on a copy of the group; after the last group,
\* the rendering and the return
RunHierarchyLoop ==
    /\ Running("runHierarchyMode", "loop")
    /\ IF Top.i <= Len(Top.groups)
       THEN IF TruncationPanics(Top.tty,
                   StatusLineLen(Top.i, Len(Top.groups), Top.groups[Top.i].FullPath))
            THEN Exit(PanicExitCode, << [ev |-> "panic"] >>)
            ELSE ModeStep(Call("gotRoot", PopulateFrame(Top.groups[Top.i], Top.all)),
                          ret,
                          << CallEv("PopulateGroupHierarchy", Top.groups[Top.i],
                                    Top.all) >>, FALSE)
       ELSE ModeStep(Pop, ret,
                     IF Len(Top.populatedGroups) > 0
                     THEN HierarchyPrints(Top.populatedGroups)
                     ELSE << PrintEv("none", <<>>) >>, TRUE)

\* RunHierarchyGotRoot leaving out a root whose population failed
RunHierarchyGotRootSkip ==
    /\ Running("runHierarchyMode", "gotRoot")
    /\ IF ret.err # NilErr /\ IsCancelMsg(ret.err)
       THEN Exit(0, << PrintEv("cancelled", <<>>) >>
                       \o HierarchyPrints(Top.populatedGroups))
       ELSE ModeStep(SetTop([Top EXCEPT
                                !.pc = "loop", !.i = Top.i + 1,
                                !.populatedGroups =
                                    IF ret.err # NilErr THEN Top.populatedGroups
                                    ELSE Append(Top.populatedGroups, ret.val)]),
                     ret,
                     IF ret.err # NilErr THEN << PrintEv("warning", ret.err) >>
                     ELSE <<>>, FALSE)

\* RunHierarchyGotRoot going on after the cancellation as after any error
RunHierarchyGotRootNoBreak ==
    /\ Running("runHierarchyMode", "gotRoot")
    /\ ModeStep(SetTop([Top EXCEPT
                           !.pc = "loop", !.i = Top.i + 1,
                           !.populatedGroups = Append(Top.populatedGroups,
                                                      ret.val)]),
                ret,
                IF ret.err # NilErr THEN << PrintEv("warning", ret.err) >>
                ELSE <<>>, FALSE)

\* back from PopulateGroupHierarchy: the cancellation ends the loop and,
\* after the rendering of the groups populated before, the process; any
\* other error is a warning
RunHierarchyGotRoot ==
    /\ Running("runHierarchyMode", "gotRoot")
    /\ IF ret.err # NilErr /\ IsCancelMsg(ret.err)
       THEN Exit(0, << PrintEv("cancelled", <<>>) >>
                       \o HierarchyPrints(Top.populatedGroups))
       ELSE ModeStep(SetTop([Top EXCEPT
                                !.pc = "loop", !.i = Top.i + 1,
                                !.populatedGroups = Append(Top.populatedGroups,
                                                           ret.val)]),
                     ret,
                     IF ret.err # NilErr THEN << PrintEv("warning", ret.err) >>
                     ELSE <<>>, FALSE)

RunHierarchy ==
    \/ RunHierarchyStart \/ RunHierarchyGotGroups \/ RunHierarchyLoop
    \/ RunHierarchyGotRoot

(* runGroupsMode *)

RunGroupsStart ==
    /\ Running("runGroupsMode", "start")
    /\ ModeStep(Call("gotGroups", GetGroupsFrame(Top.searchTerm, Top.all)), ret,
                << CallEv("GetGroups", Top.searchTerm, Top.all) >>, FALSE)

RunGroupsGotGroups ==
    /\ Running("runGroupsMode", "gotGroups")
    /\ IF ret.err # NilErr THEN ExitOnError(ret.err)
       ELSE IF Len(ret.val) = 0
       THEN ModeStep(Pop, ret, << PrintEv("none", Top.searchTerm) >>, TRUE)
       ELSE \E groups \in SortedByFullPath(ret.val) :
               ModeStep(Pop, ret,
                        << PrintEv("groups", [list |-> groups, nameWidth |-> 0]) >>,
                        TRUE)

RunGroups == RunGroupsStart \/ RunGroupsGotGroups

(* runProjectsMode *)

RunProjectsStart ==
    /\ Running("runProjectsMode", "start")
    /\ ModeStep(Call("gotProjects", GetProjectsFrame(Top.searchTerm, Top.all)), ret,
                << CallEv("GetProjects", Top.searchTerm, Top.all) >>, FALSE)

RunProjectsGotProjects ==
    /\ Running("runProjectsMode", "gotProjects")
    /\ IF ret.err # NilErr THEN ExitOnError(ret.err)
       ELSE IF Len(ret.val) = 0
       THEN ModeStep(Pop, ret, << PrintEv("none", Top.searchTerm) >>, TRUE)
       ELSE \E projects \in SortedByPathWithNamespace(ret.val) :
               ModeStep(Pop, ret,
                        << PrintEv("projects",
                                   [list |-> projects, nameWidth |-> 0]) >>,
                        TRUE)

RunProjects == RunProjectsStart \/ RunProjectsGotProjects

(* runBothMode *)

\* maxNameDisplayLength and padWhichResource after the two loops
NameDisplay(groups, projects) ==
    LET lens == [k \in 1..(Len(groups) + Len(projects)) |->
                    IF k <= Len(groups) THEN Len(groups[k].FullPath) + 1
                    ELSE Len(projects[k - Len(groups)].PathWithNamespace) + 1]
        max  == IF Len(lens) = 0 THEN 0
                ELSE CHOOSE m \in {lens[k] : k \in 1..Len(lens)} :
                        \A k \in 1..Len(lens) : lens[k] <= m
        \* the first element of the maximal length is the last to assign
        first == IF max = 0 THEN 0
                 ELSE CHOOSE k \in 1..Len(lens) :
                         /\ lens[k] = max
                         /\ \A j \in 1..(k - 1) : lens[j] < max
    IN [maxNameDisplayLength |-> max,
        padWhichResource |-> IF first = 0 THEN ""
                             ELSE IF first <= Len(groups) THEN "groups"
                             ELSE "projects"]

\* the width the list of a resource is printed with
ListWidth(display, resource) ==
    IF display.padWhichResource # resource
    THEN display.maxNameDisplayLength + 2
    ELSE display.maxNameDisplayLength

RunBothStart ==
    /\ Running("runBothMode", "start")
    /\ ModeStep(Call("gotGroups", GetGroupsFrame(Top.searchTerm, Top.all)), ret,
                << CallEv("GetGroups", Top.searchTerm, Top.all) >>, FALSE)

RunBothGotGroups ==
    /\ Running("runBothMode", "gotGroups")
    /\ IF ret.err # NilErr THEN ExitOnError(ret.err)
       ELSE ModeStep(Append(SetTop([Top EXCEPT !.pc = "gotProjects",
                                                 !.groups = ret.val]),
                            GetProjectsFrame(Top.searchTerm, Top.all)),
                     ret, << CallEv("GetProjects", Top.searchTerm, Top.all) >>,
                     FALSE)

RunBothGotProjects ==
    /\ Running("runBothMode", "gotProjects")
    /\ IF ret.err # NilErr THEN ExitOnError(ret.err)
       ELSE IF Len(Top.groups) = 0 /\ Len(ret.val) = 0
       THEN ModeStep(Pop, ret, << PrintEv("none", Top.searchTerm) >>, TRUE)
       ELSE LET display == NameDisplay(Top.groups, ret.val)
            IN \E groups \in SortedByFullPath(Top.groups) :
               \E projects \in SortedByPathWithNamespace(ret.val) :
                  ModeStep(Pop, ret,
                           << IF Len(groups) > 0
                              THEN PrintEv("groups",
                                     [list |-> groups,
                                      nameWidth |-> ListWidth(display, "groups")])
                              ELSE PrintEv("none", Top.searchTerm),
                              IF Len(projects) > 0
                              THEN PrintEv("projects",
                                     [list |-> projects,
                                      nameWidth |-> ListWidth(display, "projects")])
                              ELSE PrintEv("none", Top.searchTerm) >>,
                           TRUE)

RunBoth == RunBothStart \/ RunBothGotGroups \/ RunBothGotProjects

----------------------------------------------------------------------------
(* The command.  One run of main against a server with two top-level       *)
(* groups, 4 "a" above group 5 and 3 "C", and three projects, with some    *)
(* endpoints misbehaving; the configuration is explored against the        *)
(* server without faults.                                                  *)

\* endpoints of a world that misbehave
MaxMainFaults == 2

TermA == <<97>>

MainGroups == << RemoteGroup(3, 0, <<67>>), RemoteGroup(4, 0, <<97>>) >>

MainGroupIDs == 3..5

MainEndpoints ==
    {<<"groups", 0, <<>>>>, <<"groups", 0, TermA>>, <<"projects", 0, <<>>>>}
    \cup {<<kind, gid, <<>>>> : kind \in {"subgroups", "groupProjects"},
                                gid \in MainGroupIDs}

MainList(e) ==
    IF e[1] = "groups" THEN (IF e[3] = <<>> THEN MainGroups ELSE <<>>)
    ELSE IF e[1] = "projects" THEN RemoteProjects(1)
    ELSE RemoteList(e)

MainData(e, fault) ==
    EndpointData(
        IF fault = "probe" THEN ProbeFailed
        ELSE Response("none", StatusOK, TRUE, <<>>,
                      IF fault = "large" THEN <<49, 50, 48>> ELSE <<>>),
        Paginate(MainList(e), MaxSrvPageSize),
        IF fault = "page" THEN 1 ELSE 0)

MainWorldOf(faults) ==
    [e \in MainEndpoints |-> IF e \in DOMAIN faults THEN MainData(e, faults[e])
                             ELSE MainData(e, "ok")]

MainWorlds ==
    { MainWorldOf(faults) :
        faults \in UNION { [S -> FaultKinds] :
                              S \in {T \in SUBSET MainEndpoints :
                                        Cardinality(T) <= MaxMainFaults} } }

FaultFree == MainWorldOf(<<>>)

Flags(version, host, nohttps, debug, hierarchy, groups, projects, search, all) ==
    [version |-> version, host |-> host, nohttps |-> nohttps, debug |-> debug,
     hierarchy |-> hierarchy, groups |-> groups, projects |-> projects,
     search |-> search, all |-> all]

Env(host, token, glids, glid) ==
    [n \in {"GITLAB_HOST", "GITLAB_TOKEN", "GLIDS_NOHTTPS", "GLID_NOHTTPS"} |->
        IF n = "GITLAB_HOST" THEN host
        ELSE IF n = "GITLAB_TOKEN" THEN token
        ELSE IF n = "GLIDS_NOHTTPS" THEN glids ELSE glid]

Tty(isTerminal, sizeOK, width) ==
    [isTerminal |-> isTerminal, sizeOK |-> sizeOK, width |-> width]

NoTty == Tty(FALSE, FALSE, 0)

Command(flags, env, tty, commitSHALen) ==
    [flags |-> flags, env |-> env, tty |-> tty, commitSHALen |-> commitSHALen]

DefaultEnv == Env("env.example", "tok", "", "")

\* the commands run against every world: each mode with --debug, with and
\* without a search term, and groups mode with the status animator
FetchCommands ==
    { Command(Flags(FALSE, "", FALSE, TRUE, m[1], m[2], m[3], search, all),
              DefaultEnv, NoTty, 40) :
        m \in {<<TRUE, FALSE, FALSE>>, <<FALSE, TRUE, FALSE>>,
               <<FALSE, FALSE, TRUE>>, <<FALSE, FALSE, FALSE>>},
        search \in {<<>>, TermA}, all \in BOOLEAN }
    \cup { Command(Flags(FALSE, "", FALSE, FALSE, FALSE, TRUE, FALSE, <<>>, TRUE),
                   DefaultEnv, Tty(TRUE, TRUE, 80), 40) }

\* the configurations, in groups mode
ConfigCommands ==
    { Command(Flags(v[1], host, nohttps, TRUE, FALSE, TRUE, FALSE, <<>>, FALSE),
              Env(envHost, token, glids, glid), NoTty, v[2]) :
        v \in {<<FALSE, 40>>, <<TRUE, 40>>, <<TRUE, 4>>},
        host \in {"", "flag.example"}, envHost \in {"", "env.example"},
        token \in {"", "tok"}, nohttps \in BOOLEAN,
        glids \in {"", "true"}, glid \in {"", "true"} }

\* the mode flags in every combination, --all, and the terminals
ModeCommands ==
    { Command(Flags(FALSE, "", FALSE, debug, m[1], m[2], m[3], <<>>, all),
              DefaultEnv, tty, 40) :
        m \in BOOLEAN \X BOOLEAN \X BOOLEAN, all \in BOOLEAN,
        debug \in {TRUE},
        tty \in {NoTty, Tty(TRUE, TRUE, 0), Tty(TRUE, TRUE, 3),
                 Tty(TRUE, TRUE, 80), Tty(TRUE, FALSE, 0)} }

Commands(world) ==
    IF world = FaultFree THEN FetchCommands \cup ConfigCommands \cup ModeCommands
    ELSE FetchCommands

InitMain ==
    /\ stack = <<>>
    /\ ret = NoRet
    /\ log = <<>>
    /\ srv \in MainWorlds
    /\ pauseStatus = "nil"
    /\ ch = <<>>
    /\ anim = "off"
    /\ paused = FALSE
    /\ progressIndex = 0
    /\ done = FALSE
    /\ statusLine = "clear"
    /\ calls = 0

\* the process starts: the flags parsed, the environment, the terminal
StartMain ==
    /\ stack = <<>>
    /\ calls = 0
    /\ calls' = 1
    /\ \E c \in Commands(srv) :
          /\ stack' = << MainFrame(c.flags, c.env, c.tty, c.commitSHALen) >>
          /\ log' = << [ev |-> "start", command |-> c] >>
    /\ UNCHANGED <<ret, srv, pauseStatus, ch, animVars, done>>

RunModes == RunHierarchy \/ RunGroups \/ RunProjects \/ RunBoth

NextMain ==
    StartMain \/ Main \/ MainReturn \/ RunModes \/ Fetchers \/ Populate \/ Gate
    \/ Animator

SpecMain == InitMain /\ [][NextMain]_vars

----------------------------------------------------------------------------
(* Reading the history. *)

\* the place of the return that closes the call at i, or one past the end
\* when the call has not returned yet
RECURSIVE ScanReturn(_, _)
ScanReturn(j, depth) ==
    IF j > Len(log) THEN Len(log) + 1
    ELSE IF log[j].ev = "call" THEN ScanReturn(j + 1, depth + 1)
    ELSE IF log[j].ev = "return"
         THEN IF depth = 0 THEN j ELSE ScanReturn(j + 1, depth - 1)
    ELSE ScanReturn(j + 1, depth)

ReturnOf(i) == ScanReturn(i + 1, 0)

Returned(i) == ReturnOf(i) <= Len(log)

\* what happened between the call at i and its return, nested calls included
Body(i) == (i + 1)..(ReturnOf(i) - 1)

FetcherNames == {"GetProjects", "GetGroups", "getSubgroups", "getProjectsForGroup"}

FetcherCalls ==
    {i \in 1..Len(log) : log[i].ev = "call" /\ log[i].fn \in FetcherNames}

\* the calls of confirmLargeFetch in the history
GateCalls ==
    {i \in 1..Len(log) : log[i].ev = "call" /\ log[i].fn = "confirmLargeFetch"}

AllCalls == {i \in 1..Len(log) : log[i].ev = "call"}

\* the call from which the call at g was made (0: none)
Caller(g) ==
    LET around == {i \in AllCalls : i < g /\ g < ReturnOf(i)}
    IN IF around = {} THEN 0
       ELSE CHOOSE i \in around : \A k \in around : k <= i

GateReturn(i) == ReturnOf(i)

\* what the call at i did before it returned
GateBody(i) == Body(i)

GatePrompts(i) == {j \in GateBody(i) : log[j].ev = "prompt"}

GateSends(i, v) == {j \in GateBody(i) : log[j].ev = "send" /\ log[j].val = v}

GateReturned(i) == Returned(i)

\* the requests of the history: all of them, and the list pages
Reqs(S) == {j \in S : log[j].ev = "req"}

ListReqs(S) == {j \in Reqs(S) : log[j].req.perPage = listPerPage}

\* the list pages asked of endpoint e, in the order of the requests
ListPagesAsked(e) ==
    LET sel == SelectSeq(log, LAMBDA x :
                   x.ev = "req" /\ x.req.perPage = listPerPage
                   /\ Endpoint(x.req) = e)
    IN [k \in 1..Len(sel) |-> sel[k].req.page]

\* the first empty page of a list, one past the last page when none is empty
FirstEmpty(pages) ==
    LET empty == {p \in 1..Len(pages) : pages[p] = <<>>}
    IN IF empty = {} THEN Len(pages) + 1
       ELSE CHOOSE p \in empty : \A q \in empty : p <= q

RECURSIVE ConcatPages(_, _)
ConcatPages(pages, n) ==
    IF n = 0 THEN <<>> ELSE ConcatPages(pages, n - 1) \o pages[n]

\* the objects of the pages before the first empty one
Accumulated(pages) == ConcatPages(pages, FirstEmpty(pages) - 1)

\* the endpoint a fetcher frame pages through
FrameEndpoint(f) ==
    IF f.fn = "GetProjects" THEN <<"projects", 0, <<>>>>
    ELSE IF f.fn = "GetGroups" THEN <<"groups", 0, f.searchTerm>>
    ELSE IF f.fn = "getSubgroups" THEN <<"subgroups", f.groupID, <<>>>>
    ELSE <<"groupProjects", f.groupID, <<>>>>

DecodeFor(fn, objs) ==
    IF fn \in {"GetProjects", "getProjectsForGroup"} THEN DecodeProjects(objs)
    ELSE DecodeGroups(objs)

\* the outermost call and whether it is over
TopCall == log[1]

Finished == log # <<>> /\ stack = <<>> /\ TopCall.ev = "call"

\* s contains t when both are folded to lower case, byte by byte
FoldContains(s, t) ==
    \E off \in 0..(Len(s) - Len(t)) :
        \A k \in 1..Len(t) : LowerByte(s[off + k]) = LowerByte(t[k])

----------------------------------------------------------------------------
(* Claims about the confirmation gate. *)

\* C1: confirmLargeFetch returns true without invoking the confirmation
\* policy and without any pause or resume signal whenever count <= 50; for
\* count > 50 it invokes the policy exactly once before it returns and its
\* result is the policy's answer (50 does not prompt, 51 does).
C1_ThresholdGate ==
    \A i \in GateCalls :
        IF log[i].totalCount <= 50
        THEN /\ GateBody(i) = {}
             /\ GateReturned(i) => log[GateReturn(i)].val = TRUE
        ELSE /\ Cardinality(GatePrompts(i)) <= 1
             /\ GateReturned(i) =>
                   /\ Cardinality(GatePrompts(i)) = 1
                   /\ \A j \in GatePrompts(i) :
                         log[GateReturn(i)].val = log[j].answer

\* C1 witness: one history holds a returned call with count 50 and a
\* returned call with count 51 that prompted
C1_Witness ==
    /\ \E i \in GateCalls : log[i].totalCount = 50 /\ GateReturned(i)
    /\ \E i \in GateCalls :
          log[i].totalCount = 51 /\ GateReturned(i) /\ GatePrompts(i) # {}

\* C10: on a negative answer confirmLargeFetch returns false and sends no
\* resume signal, whether or not its pause signal was delivered; on an
\* affirmative answer it returns true whether or not the resume signal
\* could be sent.
C10_NoResumeOnDecline ==
    \A i \in GateCalls : \A j \in GatePrompts(i) :
        GateReturned(i) =>
            IF log[j].answer
            THEN log[GateReturn(i)].val = TRUE
            ELSE /\ log[GateReturn(i)].val = FALSE
                 /\ GateSends(i, FALSE) = {}
                 /\ \A k \in GateBody(i) : k > j => log[k].ev # "send"

\* C10 witness: a declined call whose pause signal was delivered, and a
\* confirmed call whose pause was delivered but whose resume was dropped
C10_Witness ==
    /\ \E i \in GateCalls :
          /\ GateReturned(i)
          /\ GateSends(i, TRUE) # {}
          /\ \E j \in GatePrompts(i) : ~log[j].answer
    /\ \E i \in GateCalls :
          /\ GateReturned(i)
          /\ GateSends(i, TRUE) # {}
          /\ GateSends(i, FALSE) = {}
          /\ \E j \in GatePrompts(i) : log[j].answer

----------------------------------------------------------------------------
(* Claims about the flat fetchers. *)

\* every fetcher frame in its page loop holds the pages before its current
\* one, in page order, none of them empty
AccumulatesInPageOrder ==
    \A d \in 1..Len(stack) :
        LET f == stack[d]
        IN (f.fn \in FetcherNames /\ f.pc = "page") =>
              LET pages == srv[FrameEndpoint(f)].pages
              IN /\ f.page <= FirstEmpty(pages)
                 /\ f.list = DecodeFor(f.fn, ConcatPages(pages, f.page - 1))

\* the list pages of an endpoint are asked one after the other from page 1,
\* each once, and none after the first empty page
PagesAskedInOrder ==
    \A e \in DOMAIN srv :
        LET asked == ListPagesAsked(e)
        IN /\ \A k \in 1..Len(asked) : asked[k] = k
           /\ Len(asked) <= FirstEmpty(srv[e].pages)

\* a call that returns without error has asked for every page up to the
\* first empty one, and (no search term) returns the accumulated items
StopsAtFirstEmptyPage ==
    (Finished /\ ret.err = NilErr) =>
        \A e \in DOMAIN srv :
            /\ ListPagesAsked(e) # <<>> =>
                  Len(ListPagesAsked(e)) = FirstEmpty(srv[e].pages)
            /\ (TopCall.arg = <<>>
                /\ e = FrameEndpoint([fn |-> TopCall.fn, searchTerm |-> <<>>,
                                      groupID |-> FetchGroupID])) =>
                  ret.val = DecodeFor(TopCall.fn, Accumulated(srv[e].pages))

\* the server of the scenario: pages of 100, 100 and 37 items, then none
ScenarioServed(e) ==
    [p \in 1..Len(srv[e].pages) |-> Len(srv[e].pages[p])] = ScenarioSizes

ScenarioDone(e) ==
    /\ Finished /\ ret.err = NilErr /\ TopCall.arg = <<>>
    /\ ScenarioServed(e) /\ ListPagesAsked(e) # <<>>

SearchingGroups ==
    /\ log # <<>> /\ TopCall.ev = "call" /\ TopCall.fn = "GetGroups"
    /\ TopCall.arg # <<>>

SearchHits == Accumulated(srv[<<"groups", 0, TopCall.arg>>].pages)

\* C7: when the server-side search of GetGroups finds no group, the group
\* list is fetched again without a search term (same allFlag) and exactly
\* the groups whose full path contains the term case-insensitively are
\* returned; when the search finds a group, nothing is fetched again and
\* the server's result is returned as it is.
C7_GroupSearchFallback ==
    SearchingGroups =>
        LET plain == <<"groups", 0, <<>>>>
            again == {j \in Reqs(1..Len(log)) : Endpoint(log[j].req) = plain}
            all   == DecodeGroups(Accumulated(srv[plain].pages))
        IN /\ SearchHits # <<>> => again = {}
           /\ \A j \in Reqs(1..Len(log)) : log[j].req.recent = ~TopCall.all
           /\ (Finished /\ ret.err = NilErr) =>
                 IF SearchHits = <<>>
                 THEN /\ ListPagesAsked(plain) # <<>>
                      /\ TopCall.all => \E j \in again : log[j].req.perPage = probePerPage
                      /\ ret.val = SelectSeq(all, LAMBDA group :
                                       FoldContains(group.FullPath, TopCall.arg))
                 ELSE ret.val = DecodeGroups(SearchHits)

\* C7 witness: a fallback that kept some groups and dropped others, and a
\* run of the other kind is covered by the same formula
C7_Witness ==
    /\ SearchingGroups /\ Finished /\ ret.err = NilErr
    /\ SearchHits = <<>>
    /\ Len(ret.val) > 0
    /\ Len(ret.val) < Len(Accumulated(srv[<<"groups", 0, <<>>>>].pages))

\* the gate calls made by the fetcher call at i itself
OwnGates(i) == {g \in GateCalls : Caller(g) = i}

Declined(g) == \E j \in GatePrompts(g) : ~log[j].answer

\* C8: a fetcher called with allFlag whose count probe succeeds with a
\* total above 50 and whose confirmation is declined returns the
\* cancellation error with no items and issues no list-page request at all.
C8_DeclinedMeansNoPages ==
    \A i \in FetcherCalls : \A g \in OwnGates(i) :
        Declined(g) =>
            /\ log[g].totalCount > 50
            /\ ListReqs(Body(i)) = {}
            /\ Returned(i) =>
                  /\ log[ReturnOf(i)].err = ErrCancelled
                  /\ log[ReturnOf(i)].val = <<>>
                  /\ ReturnOf(i) = ReturnOf(g) + 1
            /\ (Finished /\ i = 1) => ret = RetVal(<<>>, ErrCancelled)

\* C8 witness: GetGroups, probed total 120, declined, has returned
C8_Witness ==
    /\ Finished /\ TopCall.fn = "GetGroups"
    /\ \E g \in OwnGates(1) : Declined(g) /\ log[g].totalCount = 120
    /\ ret.err = ErrCancelled

----------------------------------------------------------------------------
(* Claims about PopulateGroupHierarchy. *)

\* the calls made directly by a call whose body is j..(end - 1)
RECURSIVE DirectCalls(_, _)
DirectCalls(j, end) ==
    IF j >= end \/ j > Len(log) THEN {}
    ELSE IF log[j].ev = "call" THEN {j} \cup DirectCalls(ReturnOf(j) + 1, end)
    ELSE DirectCalls(j + 1, end)

\* the calls the caller made
TopRuns == DirectCalls(1, Len(log) + 1)

PopulateCalls ==
    {i \in 1..Len(log) : log[i].ev = "call" /\ log[i].fn = "PopulateGroupHierarchy"}

\* a call of PopulateGroupHierarchy has returned this very step; every
\* return is the last event of the history in the state it leads to
JustReturned ==
    /\ log # <<>>
    /\ log[Len(log)].ev = "return"
    /\ log[Len(log)].fn = "PopulateGroupHierarchy"

\* the return event of a call that has returned
Result(i) == log[ReturnOf(i)]

\* the recursive calls a call of PopulateGroupHierarchy made itself
ChildCalls(c) == DirectCalls(c + 1, ReturnOf(c)) \cap PopulateCalls

\* the run (top-level call) in which event j lies
RunOf(j) == CHOOSE t \in TopRuns : t <= j /\ \A u \in TopRuns : u <= j => u <= t

\* what the prompts of a call were and how they were answered, in order
Prompts(i) ==
    SelectSeq(SubSeq(log, i + 1, ReturnOf(i) - 1), LAMBDA x : x.ev = "prompt")

\* what the server lists for a group
ServedProjects(gid) ==
    DecodeProjects(Accumulated(srv[<<"groupProjects", gid, <<>>>>].pages))

ServedSubgroups(gid) ==
    DecodeGroups(Accumulated(srv[<<"subgroups", gid, <<>>>>].pages))

IsSorted(s) == \A k \in 1..(Len(s) - 1) : ~NameLess(s[k + 1], s[k])

\* both lists of g and of every group below it are sorted
RECURSIVE SortedTree(_)
SortedTree(g) ==
    /\ IsSorted(g.Subgroups)
    /\ IsSorted(g.Projects)
    /\ \A k \in 1..Len(g.Subgroups) : SortedTree(g.Subgroups[k])

\* g holds, sorted, all the projects and subgroups the server lists for it,
\* and so does every group below it
RECURSIVE FullyPopulated(_)
FullyPopulated(g) ==
    /\ g.Projects = SortStable(ServedProjects(g.ID))
    /\ [k \in 1..Len(g.Subgroups) |-> g.Subgroups[k].ID]
         = [k \in 1..Len(ServedSubgroups(g.ID)) |->
               SortStable(ServedSubgroups(g.ID))[k].ID]
    /\ \A k \in 1..Len(g.Subgroups) : FullyPopulated(g.Subgroups[k])

\* the places where getProjectsForGroup or getSubgroups returned the
\* cancellation error
CancelledFetches ==
    {j \in 1..Len(log) :
        /\ log[j].ev = "return"
        /\ log[j].fn \in {"getProjectsForGroup", "getSubgroups"}
        /\ log[j].err = ErrCancelled}

\* C2: cancellation is absorbing in PopulateGroupHierarchy: once the fetch
\* of projects or of subgroups of a node at any depth has returned the
\* cancellation error, nothing happens in that run but the returns of the
\* enclosing PopulateGroupHierarchy calls, each with that same error (not
\* wrapped, not replaced by an error recorded earlier), up to and including
\* the top-level call; no node is visited and no request is issued after
\* the cancelled fetch.
C2_CancellationAbsorbing ==
    \A j \in CancelledFetches :
        LET t   == RunOf(j)
            end == ReturnOf(t)
        IN /\ \A k \in (j + 1)..Len(log) :
                 k <= end =>
                    /\ log[k].ev = "return"
                    /\ log[k].fn = "PopulateGroupHierarchy"
                    /\ log[k].err = ErrCancelled
           /\ ~Returned(t) =>
                 /\ stack # <<>>
                 /\ \A d \in 1..Len(stack) :
                       /\ stack[d].fn = "PopulateGroupHierarchy"
                       /\ stack[d].pc \in {"gotProjects", "gotSubgroups", "gotChild"}

\* C2 witness: a fetch two levels below the root was cancelled after an
\* error had been recorded at the root, and the top-level call has returned
C2_Witness ==
    \E j \in CancelledFetches :
        /\ log[j - 1].ev = "return" /\ log[j - 1].fn = "confirmLargeFetch"
        /\ Returned(RunOf(j))
        /\ Result(RunOf(j)).err = ErrCancelled
        /\ ReturnOf(RunOf(j)) = j + 3
        /\ \E d \in ChildCalls(RunOf(j)) :
              Returned(d) /\ ReturnOf(d) < j /\ Result(d).err # NilErr

\* C3: for every group on which PopulateGroupHierarchy has returned without
\* cancellation (with nil or with a recorded error, the early return after
\* a failed subgroup fetch included), and for every group stored in its
\* tree, Subgroups and Projects are each non-decreasing under case-folded
\* name comparison.
C3_SortInvariant ==
    \A i \in PopulateCalls :
        (Returned(i) /\ ~IsCancelMsg(Result(i).err)) => SortedTree(Result(i).val)

\* C4: two runs of PopulateGroupHierarchy against the same remote hierarchy
\* with the same confirmation answers, the later one on the same group as
\* the earlier one or on the group the earlier one left, leave identical trees (the same
\* children at every node in the same order) and return the same error;
\* checked when the later run returns.
C4_Idempotent ==
    JustReturned =>
        \A i \in TopRuns : \A j \in TopRuns :
            (/\ i < j /\ ReturnOf(j) = Len(log)
             /\ log[j].arg \in {log[i].arg, Result(i).val}
             /\ Prompts(i) = Prompts(j)) =>
                /\ Result(i).val = Result(j).val
                /\ Result(i).err = Result(j).err

\* C4 witness: a second run on the populated result of the first, both
\* prompted and confirmed, has returned a tree with children
C4_Witness ==
    \E i \in TopRuns : \E j \in TopRuns :
        /\ i < j /\ Returned(j)
        /\ log[j].arg = Result(i).val
        /\ Prompts(i) = Prompts(j) /\ Prompts(i) # <<>>
        /\ Len(Result(j).val.Projects) = 3
        /\ Len(Result(j).val.Subgroups) = 3
        /\ Result(j).val = Result(i).val

\* C9: when a call of PopulateGroupHierarchy returns, was not cancelled and
\* one of its subgroups failed with a non-cancellation error, the call returns a
\* non-nil error, the group holds its fetched projects, sorted, every
\* subgroup the server lists was visited, and every subgroup that did not
\* fail is stored in the group fully populated (its own projects and
\* subgroups filled and sorted), wherever it stands in the server's order.
C9_PartialFailureTolerance ==
    JustReturned =>
    \A c \in PopulateCalls :
        (/\ ReturnOf(c) = Len(log)
         /\ ~IsCancelMsg(Result(c).err)
         /\ \E d \in ChildCalls(c) : Result(d).err # NilErr) =>
            /\ Result(c).err # NilErr
            /\ Result(c + 1).err = NilErr =>
                  Result(c).val.Projects = SortStable(ServedProjects(log[c].arg.ID))
            /\ Cardinality(ChildCalls(c)) = Len(ServedSubgroups(log[c].arg.ID))
            /\ \A d \in ChildCalls(c) :
                  Result(d).err = NilErr =>
                     /\ FullyPopulated(Result(d).val)
                     /\ \E k \in 1..Len(Result(c).val.Subgroups) :
                           Result(c).val.Subgroups[k] = Result(d).val

\* C9 witness: the second of three subgroups failed; the first and the
\* third, with its own subgroup, are in the returned tree, populated
C9_Witness ==
    /\ stack = <<>> /\ log # <<>> /\ Returned(1)
    /\ Result(1).err # NilErr /\ ~IsCancelMsg(Result(1).err)
    /\ \E d \in ChildCalls(1) : log[d].arg.ID = 3 /\ Result(d).err # NilErr
    /\ \A d \in ChildCalls(1) : log[d].arg.ID # 3 => Result(d).err = NilErr
    /\ [k \in 1..3 |-> Result(1).val.Subgroups[k].ID] = <<4, 2, 3>>
    /\ Len(Result(1).val.Subgroups[1].Subgroups) = 1
    /\ [k \in 1..2 |-> Result(1).val.Subgroups[1].Subgroups[1].Projects[k].ID]
          = <<52, 51>>
    /\ Len(Result(1).val.Projects) = 3

----------------------------------------------------------------------------
(* Claims about failures in the flat fetchers. *)

\* the count requests of the history, and those that failed
ProbeReqs == {j \in Reqs(1..Len(log)) : log[j].req.perPage = probePerPage}

FailedProbes == {j \in ProbeReqs : Get(Respond(log[j].req)).err # NilErr}

\* the error of the GET that failed is part of err
CarriesErrorOf(err, req) ==
    \E k \in 1..Len(err) : err[k] = Get(Respond(req)).err[1]

\* the request of the first list page that goes with a count request
FirstPageOf(req) == [req EXCEPT !.perPage = listPerPage, !.page = 1]

\* a list page of the endpoint fails before the first empty page
PageFails(e) == srv[e].failAt \in 1..FirstEmpty(srv[e].pages)

\* C11: when the count request of a fetcher fails, the confirmation policy
\* is not invoked by that call, the next thing the fetcher does is request
\* the first page of the list, the probe's error is not in what it
\* returns, and its result is decided by the page requests alone: an error
\* exactly when a page request fails, else the items of the pages (for
\* GetProjects, those matching the search term).
C11_ProbeFailureNotFatal ==
    \A j \in FailedProbes :
        LET c == Caller(j)
            e == Endpoint(log[j].req)
        IN /\ c \in FetcherCalls
           /\ {g \in GateCalls : Caller(g) = c} = {}
           /\ j < Len(log) => log[j + 1] = ReqEv(FirstPageOf(log[j].req))
           /\ Returned(c) =>
                 /\ ~CarriesErrorOf(Result(c).err, log[j].req)
                 /\ Result(c).err # NilErr <=> PageFails(e)
                 /\ Result(c).err = NilErr =>
                       Result(c).val =
                          LET items == DecodeFor(log[c].fn, Accumulated(srv[e].pages))
                          IN IF log[c].fn = "GetProjects"
                             THEN SelectSeq(items, LAMBDA project :
                                      FoldContains(project.PathWithNamespace,
                                                   log[c].arg))
                             ELSE items

\* C11 witness: getSubgroups, asked for everything, could not get the
\* count of a list above the threshold's reach and returned three items
C11_Witness ==
    /\ Finished /\ TopCall.fn = "getSubgroups" /\ TopCall.all
    /\ FailedProbes # {}
    /\ ret.err = NilErr /\ Len(ret.val) = 3

\* the list-page requests that failed
FailedPages ==
    {j \in ListReqs(1..Len(log)) : Get(Respond(log[j].req)).err # NilErr}

\* the list pages a call asked for, nested calls included, as (endpoint,
\* page) pairs in the order of the requests
PagesAskedBy(c) ==
    LET sel == SelectSeq(SubSeq(log, c + 1, ReturnOf(c) - 1), LAMBDA x :
                   x.ev = "req" /\ x.req.perPage = listPerPage)
    IN [k \in 1..Len(sel) |-> <<Endpoint(sel[k].req), sel[k].req.page>>]

\* C15: within one fetcher call every list page is requested at most once;
\* a failed page request is never issued again: the call that made it
\* returns at once, with the error and no items, and so does the top-level
\* call, whatever had been accumulated.
C15_NoRetryNoPartial ==
    /\ \A c \in FetcherCalls :
          \A k \in 1..Len(PagesAskedBy(c)) : \A m \in 1..Len(PagesAskedBy(c)) :
              PagesAskedBy(c)[k] = PagesAskedBy(c)[m] => k = m
    /\ \A j \in FailedPages :
          LET c == Caller(j)
          IN /\ c \in FetcherCalls
             /\ Returned(c) /\ ReturnOf(c) = j + 1
             /\ Result(c).val = <<>>
             /\ CarriesErrorOf(Result(c).err, log[j].req)
             /\ \A k \in (j + 1)..Len(log) : log[k].ev = "return"
             /\ Finished =>
                   /\ ret.val = <<>>
                   /\ ret.err # NilErr /\ ~IsCancelMsg(ret.err)
                   /\ CarriesErrorOf(ret.err, log[j].req)

\* C15 witness: GetGroups had a page of groups when its second page failed
C15_Witness ==
    /\ Finished /\ TopCall.fn = "GetGroups" /\ TopCall.arg = <<>>
    /\ \E j \in FailedPages : log[j].req.page = 2
    /\ srv[<<"groups", 0, <<>>>>].pages[1] # <<>>
    /\ ret.val = <<>> /\ ret.err # NilErr

----------------------------------------------------------------------------
(* Claims about the steps of PopulateGroupHierarchy. *)

\* event k is the return of fetcher fn with an error that is not the
\* cancellation
FetchFailedAt(k, fn) ==
    /\ log[k].ev = "return" /\ log[k].fn = fn
    /\ log[k].err # NilErr /\ ~IsCancelMsg(log[k].err)

\* the call of PopulateGroupHierarchy that has returned this very step
ReturnedNow == CHOOSE c \in PopulateCalls : ReturnOf(c) = Len(log)

\* C19: when the fetch of a node's direct projects fails with a
\* non-cancellation error, PopulateGroupHierarchy goes on to fetch the
\* node's subgroups, recurses into each subgroup the server lists, leaves
\* the node's Projects field as it was before the call, and returns a
\* non-nil error.
C19_ProjectsFailureContinues ==
    /\ \A k \in 1..(Len(log) - 1) :
          FetchFailedAt(k, "getProjectsForGroup") =>
              /\ log[k + 1].ev = "call" /\ log[k + 1].fn = "getSubgroups"
              /\ log[k + 1].arg = log[k].err[1].arg
    /\ JustReturned =>
          LET c == ReturnedNow
              p == ReturnOf(c + 1)
              g == ReturnOf(p + 1)
          IN FetchFailedAt(p, "getProjectsForGroup") =>
                /\ Result(c).err # NilErr
                /\ Result(c).val.Projects = log[c].arg.Projects
                /\ log[g].err = NilErr =>
                      \/ IsCancelMsg(Result(c).err)
                      \/ {log[g].val[k].ID : k \in 1..Len(log[g].val)}
                            = {Result(c).val.Subgroups[k].ID :
                                  k \in 1..Len(Result(c).val.Subgroups)}
                         /\ Cardinality(ChildCalls(c)) = Len(log[g].val)
                         /\ Len(Result(c).val.Subgroups) = Len(log[g].val)

\* C19 witness: the projects of the root could not be fetched; the call
\* has returned with an error, without projects and with three subgroups
C19_Witness ==
    /\ stack = <<>> /\ log # <<>> /\ Returned(1)
    /\ FetchFailedAt(ReturnOf(2), "getProjectsForGroup")
    /\ Result(1).err # NilErr
    /\ Result(1).val.Projects = <<>>
    /\ Len(Result(1).val.Subgroups) = 3
    /\ Cardinality(ChildCalls(1)) = 3

\* C20: when the fetch of a node's direct subgroups fails with a
\* non-cancellation error, PopulateGroupHierarchy returns at once with a
\* non-nil error, makes no recursive call for that node, leaves the node's
\* Subgroups field unchanged, and returns the projects error when the
\* projects fetch of the same node had failed, otherwise the subgroups
\* error.
C20_SubgroupsFailureReturns ==
    /\ \A k \in 1..(Len(log) - 1) :
          FetchFailedAt(k, "getSubgroups") =>
              /\ log[k + 1].ev = "return"
              /\ log[k + 1].fn = "PopulateGroupHierarchy"
              /\ log[k + 1].err # NilErr
    /\ (JustReturned /\ FetchFailedAt(Len(log) - 1, "getSubgroups")) =>
          LET c == ReturnedNow
              p == ReturnOf(c + 1)
              gid == <<log[c].arg.ID>>
          IN /\ ChildCalls(c) = {}
             /\ Result(c).val.Subgroups = log[c].arg.Subgroups
             /\ Result(c).err =
                   IF log[p].err # NilErr
                   THEN << ErrPart("failed getting projects for group", gid) >>
                           \o log[p].err
                   ELSE << ErrPart("failed getting subgroups for group", gid) >>
                           \o log[Len(log) - 1].err

\* C20 witness: both fetches of the root failed and the call returned the
\* projects error
C20_Witness ==
    /\ stack = <<>> /\ Len(log) > 2 /\ Returned(1)
    /\ FetchFailedAt(Len(log) - 1, "getSubgroups")
    /\ FetchFailedAt(ReturnOf(2), "getProjectsForGroup")
    /\ Result(1).err[1].msg = "failed getting projects for group"
    /\ Result(1).val.Subgroups = <<>>

----------------------------------------------------------------------------
(* Claims about the gate and the control channel. *)

GateRunning == stack # <<>> /\ Top.fn = "confirmLargeFetch"

\* a step of confirmLargeFetch that passes a send: the signal is in the
\* channel at once, or the channel is as it was
SendOrDrop ==
    (GateRunning /\ stack' # stack) =>
        \/ ch' = ch
        \/ ch' = Append(ch, TRUE) /\ Top.pc = "entry"
        \/ ch' = Append(ch, FALSE) /\ Top.pc = "resume"

\* C14: confirmLargeFetch never blocks on the control channel: whatever
\* the channel holds and whatever the animator does (running, paused,
\* stopped, never started), confirmLargeFetch can always take its next
\* step, each send it passes either puts the signal in the channel at once
\* or drops it, and (the confirmation policy answering) every call returns.
C14_GateNeverBlocks ==
    /\ [](GateRunning => ENABLED Gate)
    /\ [][SendOrDrop]_stack
    /\ GateRunning ~> ~GateRunning

\* C14 witness: a call above the threshold has found the slot full and a
\* channel to send on, and has returned
C14_Witness ==
    \E i \in GateCalls :
        /\ log[i].totalCount > largeFetchThreshold
        /\ GateReturned(i)
        /\ GateSends(i, TRUE) = {}
        /\ pauseStatus # "nil"
        /\ ch # <<>>

----------------------------------------------------------------------------
(* Claims about the command. *)

\* the command of the run, once the process has started
Started == log # <<>> /\ log[1].ev = "start"

TheCommand == log[1].command

\* the clients main has created
Clients == {i \in 1..Len(log) : log[i].ev = "client"}

\* the exits of the process
Exits == {i \in 1..Len(log) : log[i].ev = "exit"}

\* the process has just exited
Exited == log # <<>> /\ log[Len(log)].ev = "exit"

AllReqs == {i \in 1..Len(log) : log[i].ev = "req"}

\* C16: with GLID_NOHTTPS=true in the environment and no --nohttps flag the
\* client main creates talks HTTP, as it does with the --nohttps flag.
C16_EnvDisablesHTTPS ==
    Started =>
        \A i \in Clients :
            (TheCommand.flags.nohttps \/ Getenv(TheCommand.env, "GLID_NOHTTPS") = "true")
                => log[i].baseURL.scheme = "http"

\* C17: the server host is the --host flag when it is not empty, whatever
\* GITLAB_HOST is, and GITLAB_HOST only when the flag is empty; with both
\* empty, or with GITLAB_TOKEN empty, no client is made and no request sent.
C17_HostResolution ==
    Started =>
        LET flags == TheCommand.flags
            env   == TheCommand.env
        IN /\ \A i \in Clients :
                 /\ flags.host # "" => log[i].baseURL.host = flags.host
                 /\ flags.host = "" => log[i].baseURL.host = env["GITLAB_HOST"]
                 /\ log[i].baseURL.host # ""
                 /\ env["GITLAB_TOKEN"] # ""
           /\ (flags.host = "" /\ env["GITLAB_HOST"] = "") \/ env["GITLAB_TOKEN"] = ""
                 => Clients = {} /\ AllReqs = {}
           /\ AllReqs # {} => Clients # {}

\* the flag wins over a different GITLAB_HOST, and requests have been sent
C17_Witness ==
    /\ Started
    /\ TheCommand.flags.host = "flag.example"
    /\ TheCommand.env["GITLAB_HOST"] = "env.example"
    /\ \E i \in Clients : log[i].baseURL.host = "flag.example"
    /\ AllReqs # {}

\* the token or the host is missing
ConfigMissing ==
    \/ TheCommand.env["GITLAB_TOKEN"] = ""
    \/ TheCommand.flags.host = "" /\ TheCommand.env["GITLAB_HOST"] = ""

\* the exit at i follows the return of a GetGroups or GetProjects call of the
\* run mode with an error
TopFetchError(i) ==
    /\ i > 2
    /\ log[i - 2].ev = "return"
    /\ log[i - 2].fn \in {"GetGroups", "GetProjects"}
    /\ log[i - 2].err # NilErr

\* C13: the process exits with code 0 or 1 and no other; with 1 when the
\* token or host is missing or a GetGroups/GetProjects call of the run mode
\* returned an error other than the cancellation, with 0 in every other
\* case (runs of a mode, --version aside).
C13_ExitCodes ==
    Started /\ ~TheCommand.flags.version =>
        \A i \in Exits :
            /\ log[i].code \in {0, 1}
            /\ log[i].code = 1 <=>
                  \/ ConfigMissing
                  \/ TopFetchError(i) /\ ~IsCancelMsg(log[i - 2].err)

\* the calls of PopulateGroupHierarchy the run mode made, one per root
RootCalls == TopRuns \cap PopulateCalls

\* the groups GetGroups gave the run mode
RootsFound ==
    LET g == CHOOSE c \in TopRuns : log[c].fn = "GetGroups"
    IN {Result(g).val[k] : k \in 1..Len(Result(g).val)}

\* display.PrintHierarchy was called on the group
Rendered(group) ==
    \E j \in 1..Len(log) :
        log[j].ev = "print" /\ log[j].what = "hierarchy" /\ log[j].val = group

\* the population of the root at c returned an error, not the cancellation
RootFailed(c) == Result(c).err # NilErr /\ ~IsCancelMsg(Result(c).err)

\* the roots the loop had not reached when it called c
RootsAfter(c) ==
    {r \in RootsFound : \A d \in RootCalls : d <= c => log[d].arg # r}

\* the root was populated after c and what the call left was rendered
PopulatedAndRendered(r, c) ==
    \E d \in RootCalls : d > c /\ log[d].arg = r /\ Rendered(Result(d).val)

\* a later root's population was cancelled
CancelledAfter(c) ==
    \E d \in RootCalls : d > c /\ IsCancelMsg(Result(d).err)

\* C18 as stated: after a root whose population returned an error other
\* than the cancellation, that root is rendered, every later root is
\* populated and rendered, and the exit code is 0.
C18_Original ==
    Exited =>
        \A c \in RootCalls :
            RootFailed(c) =>
                /\ Rendered(Result(c).val)
                /\ \A r \in RootsAfter(c) : PopulatedAndRendered(r, c)
                /\ log[Len(log)].code = 0

\* C18: after a root whose population returned an error other than the
\* cancellation, that root is rendered as the call left it, every later
\* root is populated and rendered up to a root whose population is
\* cancelled (the roots populated before it are rendered), and the exit
\* code is 0.
C18_PerNodeErrorsTolerated ==
    Exited =>
        \A c \in RootCalls :
            RootFailed(c) =>
                /\ Rendered(Result(c).val)
                /\ \A d \in RootCalls :
                      d > c /\ ~IsCancelMsg(Result(d).err) => Rendered(Result(d).val)
                /\ ~CancelledAfter(c) =>
                      \A r \in RootsAfter(c) : PopulatedAndRendered(r, c)
                /\ log[Len(log)].code = 0

\* the first root failed, the second was populated, both were rendered
C18_Witness ==
    /\ Exited
    /\ \E c \in RootCalls :
          /\ RootFailed(c)
          /\ Rendered(Result(c).val)
          /\ RootsAfter(c) # {}
          /\ \A r \in RootsAfter(c) : PopulatedAndRendered(r, c)

\* a call has returned this very step
SomeReturned == log # <<>> /\ log[Len(log)].ev = "return"

\* the calls of fetchers and of PopulateGroupHierarchy that returned the
\* cancellation
ReturnedCancellation(c) ==
    /\ log[c].fn \in FetcherNames \cup {"PopulateGroupHierarchy"}
    /\ Returned(c)
    /\ Result(c).err = ErrCancelled

\* the re-fetch a GetGroups call made for the manual filtering (0: none)
FallbackOf(c) ==
    LET inner == {d \in DirectCalls(c + 1, ReturnOf(c)) : log[d].fn = "GetGroups"}
    IN IF inner = {} THEN 0 ELSE CHOOSE d \in inner : TRUE

\* C12: the cancellation is never wrapped or reclassified on its way up. A
\* call that returns while a call it made has returned the cancellation
\* returns that very error, at every depth: GetGroups for its re-fetch,
\* PopulateGroupHierarchy for a descendant; any other error of the re-fetch
\* GetGroups returns wrapped; and the run mode that gets the cancellation
\* from its call recognises it: the process exits with code 0.
C12_CancellationNeverWrapped ==
    /\ SomeReturned =>
          \A c \in AllCalls :
              ReturnOf(c) = Len(log) =>
                  /\ \A d \in DirectCalls(c + 1, Len(log)) :
                        ReturnedCancellation(d) =>
                            /\ Result(c).err = Result(d).err
                            /\ IsCancelMsg(Result(c).err)
                  /\ log[c].fn = "GetGroups" /\ FallbackOf(c) # 0 =>
                        LET inner == Result(FallbackOf(c)).err
                        IN inner # NilErr /\ inner # ErrCancelled =>
                              /\ Result(c).err =
                                    Wrap("error fetching groups for manual filtering",
                                         <<>>, inner)
                              /\ ~IsCancelMsg(Result(c).err)
    /\ Exited =>
          \A c \in TopRuns :
              ReturnedCancellation(c) =>
                  /\ log[Len(log)].code = 0
                  /\ \E j \in c..Len(log) :
                        log[j].ev = "print" /\ log[j].what = "cancelled"

\* the re-fetch of a searching GetGroups was cancelled, the outer call
\* returned, and the run ended
C12_Witness ==
    /\ Exited
    /\ \E c \in TopRuns :
          /\ log[c].fn = "GetGroups"
          /\ FallbackOf(c) # 0
          /\ ReturnedCancellation(FallbackOf(c))
          /\ ReturnedCancellation(c)

----------------------------------------------------------------------------
(* More claims about PopulateGroupHierarchy. *)

\* the calls a call of PopulateGroupHierarchy made itself, fetches and
\* recursive calls
OwnCalls(c) == DirectCalls(c + 1, ReturnOf(c))

\* those that returned an error
FailedOwnCalls(c) == {d \in OwnCalls(c) : Result(d).err # NilErr}

\* the text PopulateGroupHierarchy puts in front of the error of a call
FailureLabel(d) ==
    IF log[d].fn = "getProjectsForGroup" THEN "failed getting projects for group"
    ELSE IF log[d].fn = "getSubgroups" THEN "failed getting subgroups for group"
    ELSE "failed to populate subgroup"

\* the fetches made anywhere below the call, that failed
FailedFetchesBelow(c) ==
    {j \in Body(c) : /\ log[j].ev = "return"
                     /\ log[j].fn \in {"getProjectsForGroup", "getSubgroups"}
                     /\ log[j].err # NilErr}

\* C21: a call of PopulateGroupHierarchy that was not cancelled makes its
\* calls in the order projects fetch, subgroups fetch, subgroups as the
\* server listed them; the error it returns is the error of the first of
\* these calls that failed, with the node's text in front, whatever failed
\* later; and it returns nil exactly when no fetch anywhere below failed.
C21_FirstErrorWins ==
    JustReturned =>
    \A c \in PopulateCalls :
        (ReturnOf(c) = Len(log) /\ ~IsCancelMsg(Result(c).err)) =>
            LET own    == OwnCalls(c)
                failed == FailedOwnCalls(c)
                first  == CHOOSE d \in failed : \A e \in failed : d <= e
                kids   == ChildCalls(c)
            IN /\ log[c + 1].fn = "getProjectsForGroup"
               /\ \A d \in own : log[d].fn = "getSubgroups" =>
                     /\ d = ReturnOf(c + 1) + 1
                     /\ \A k \in kids : k > d
                     /\ Result(d).err = NilErr =>
                           /\ Cardinality(kids) = Len(Result(d).val)
                           /\ \A k \in kids :
                                 log[k].arg =
                                    Result(d).val[Cardinality({x \in kids : x <= k})]
               /\ IF failed = {} THEN Result(c).err = NilErr
                  ELSE /\ Result(c).err # NilErr
                       /\ Head(Result(c).err).msg = FailureLabel(first)
                       /\ Tail(Result(c).err) = Result(first).err
               /\ Result(c).err = NilErr <=> FailedFetchesBelow(c) = {}

\* the root's projects fetch failed and so did a subgroup; the root returns
\* the error of its projects fetch
C21_Witness ==
    /\ stack = <<>> /\ log # <<>> /\ Returned(1)
    /\ ~IsCancelMsg(Result(1).err)
    /\ Result(2).err # NilErr
    /\ \E d \in ChildCalls(1) : Result(d).err # NilErr
    /\ Tail(Result(1).err) = Result(2).err

\* the subgroups fetch of a call of PopulateGroupHierarchy (0: not made)
SubgroupsFetchOf(c) ==
    LET made == {d \in OwnCalls(c) : log[d].fn = "getSubgroups"}
    IN IF made = {} THEN 0 ELSE CHOOSE d \in made : TRUE

IDsOf(s) == {s[k].ID : k \in 1..Len(s)}

\* C22: when a call of PopulateGroupHierarchy returns, was not cancelled
\* and its subgroups fetch succeeded, the group's Subgroups holds one entry
\* for each subgroup the fetch returned, no identifier twice and none
\* missing, also for the subgroups whose population failed; each entry is
\* the group the recursive call on that identifier left, with projects and
\* subgroups the server lists under that identifier.
C22_WriteBackNoAliasing ==
    JustReturned =>
    \A c \in PopulateCalls :
        (/\ ReturnOf(c) = Len(log)
         /\ ~IsCancelMsg(Result(c).err)
         /\ SubgroupsFetchOf(c) # 0
         /\ Result(SubgroupsFetchOf(c)).err = NilErr) =>
            LET fetched == Result(SubgroupsFetchOf(c)).val
                held    == Result(c).val.Subgroups
            IN /\ Len(held) = Len(fetched)
               /\ IDsOf(held) = IDsOf(fetched)
               /\ \A k \in 1..Len(held) : \A j \in 1..Len(held) :
                     held[k].ID = held[j].ID => k = j
               /\ \A k \in 1..Len(held) :
                     /\ \E d \in ChildCalls(c) :
                           /\ log[d].arg.ID = held[k].ID
                           /\ Result(d).val = held[k]
                     /\ IDsOf(held[k].Projects) \subseteq
                           IDsOf(ServedProjects(held[k].ID))
                     /\ IDsOf(held[k].Subgroups) \subseteq
                           IDsOf(ServedSubgroups(held[k].ID))

\* three subgroups written back, one of them failed, each with its own
\* projects
C22_Witness ==
    /\ stack = <<>> /\ log # <<>> /\ Returned(1)
    /\ ~IsCancelMsg(Result(1).err)
    /\ Len(Result(1).val.Subgroups) = 3
    /\ \E d \in ChildCalls(1) : Result(d).err # NilErr
    /\ \E k \in 1..3 : Result(1).val.Subgroups[k].Projects # <<>>
    /\ \E k \in 1..3 : \E j \in 1..3 :
          /\ k # j
          /\ Result(1).val.Subgroups[k].Projects # <<>>
          /\ Result(1).val.Subgroups[j].Projects # <<>>

\* the place of the element with the identifier in a list without
\* duplicates (0: not there)
PlaceOf(id, s) ==
    IF id \in IDsOf(s) THEN CHOOSE k \in 1..Len(s) : s[k].ID = id ELSE 0

\* the children in held (elements the server lists, not the zero values a
\* cancelled loop leaves behind) whose names are equal under case folding
\* stand in the order they have in served
TiesKeepOrder(held, served) ==
    \A k \in 1..Len(held) : \A j \in 1..Len(held) :
        (/\ k < j
         /\ held[k].ID \in IDsOf(served) /\ held[j].ID \in IDsOf(served)
         /\ ToLower(held[k].Name) = ToLower(held[j].Name)) =>
            PlaceOf(held[k].ID, served) < PlaceOf(held[j].ID, served)

\* C23: in the group a call of PopulateGroupHierarchy leaves, projects whose
\* names are equal under case folding stand in the order in which the
\* server lists them, and so do subgroups.
C23_StableSort ==
    JustReturned =>
    \A c \in PopulateCalls :
        ReturnOf(c) = Len(log) =>
            /\ TiesKeepOrder(Result(c).val.Projects, ServedProjects(log[c].arg.ID))
            /\ TiesKeepOrder(Result(c).val.Subgroups,
                             ServedSubgroups(log[c].arg.ID))

\* the root sorted, with the projects "A" and "a" and the subgroups "c" and
\* "C" in the server's order
C23_Witness ==
    /\ stack = <<>> /\ log # <<>> /\ Returned(1)
    /\ [k \in 1..Len(Result(1).val.Projects) |-> Result(1).val.Projects[k].ID]
          = <<12, 13, 11>>
    /\ [k \in 1..Len(Result(1).val.Subgroups) |-> Result(1).val.Subgroups[k].ID]
          = <<4, 2, 3>>
    /\ ToLower(Result(1).val.Subgroups[2].Name)
          = ToLower(Result(1).val.Subgroups[3].Name)
    /\ Result(1).val.Subgroups[2].Name # Result(1).val.Subgroups[3].Name

----------------------------------------------------------------------------
(* Claims about the animator. *)

\* C24 as stated: once the animator has been stopped, the control channel,
\* on which the gate sends its pause and resume signals, is closed.
C24_Original == done => pauseStatus = "closed"

\* C24: stopping the animator closes the animator's own channel done and
\* leaves the control channel, on which the gate sends its pause and resume
\* signals, open and as it is; the control channel is never closed.
C24_StopClosesDone ==
    /\ [](pauseStatus # "closed")
    /\ [][(~done /\ done') => (pauseStatus' = pauseStatus /\ ch' = ch)]_<<done>>

\* the animator was stopped before the one call of the gate, and the gate
\* has sent its pause signal on the control channel all the same
C24_Witness ==
    /\ done
    /\ Cardinality(GateCalls) = 1
    /\ Running("confirmLargeFetch", "ask")
    /\ Top.didPause
    /\ ch = << TRUE >>

\* C25: once the stop function has returned, the animator writes nothing on
\* the status line but its final line-clear, in every interleaving.
C25_NothingPaintedAfterStop ==
    [][done => statusLine' \in {statusLine, "clear"}]_<<statusLine, progressIndex>>

----------------------------------------------------------------------------
(* Claims about the requests. *)

\* the requests sent between the call at c and its return
ReqsOf(c) == {j \in Body(c) : log[j].ev = "req"}

\* C26: every request sent during a call of a fetcher or of
\* PopulateGroupHierarchy, count probes and list pages alike, carries
\* last_activity_after when the call's all flag is false and does not
\* carry it when the flag is true.
C26_RecencyFilter ==
    SomeReturned =>
    \A c \in AllCalls :
        (/\ ReturnOf(c) = Len(log)
         /\ log[c].fn \in FetcherNames \cup {"PopulateGroupHierarchy"}) =>
            \A j \in ReqsOf(c) : log[j].req.recent = ~log[c].all

\* a population without the all flag has returned after count probes and
\* list pages, of projects and of subgroups, all with the constraint
C26_Witness ==
    /\ SomeReturned
    /\ \E c \in PopulateCalls :
          /\ ReturnOf(c) = Len(log)
          /\ ~log[c].all
          /\ \E j \in ReqsOf(c) : log[j].req.perPage = probePerPage
          /\ \E j \in ReqsOf(c) :
                /\ log[j].req.perPage = listPerPage
                /\ log[j].req.path = "subgroups"
                /\ log[j].req.recent
          /\ \E j \in ReqsOf(c) :
                /\ log[j].req.path = "groupProjects"
                /\ log[j].req.page = 2
                /\ log[j].req.recent

ZeroProbes ==
    {j \in ProbeReqs : /\ Get(Respond(log[j].req)).err = NilErr
                       /\ Get(Respond(log[j].req)).info.Total = 0}

\* the requests a call sent after the event at j
LaterReqs(c, j) == {k \in ReqsOf(c) : k > j}

\* C28: when the count request of a fetcher is answered without a usable
\* total (an absent or unparseable X-Total header, read as zero), that
\* call writes no prompt and is not cancelled, the next request is the first page of the list, and the
\* result is decided by the pages alone: an error exactly when a page
\* request fails, else every item of the pages the fetcher went through (for
\* GetProjects, those matching the search term).
C28_ZeroTotalMeansUnknown ==
    \A j \in ZeroProbes :
        LET c == Caller(j)
            e == Endpoint(log[j].req)
            later == LaterReqs(c, j)
        IN /\ c \in FetcherCalls
           /\ \A g \in GateCalls : Caller(g) = c => GatePrompts(g) = {}
           /\ later # {} =>
                 log[CHOOSE k \in later : \A l \in later : k <= l]
                    = ReqEv(FirstPageOf(log[j].req))
           /\ (Returned(c) /\ FallbackOf(c) = 0) =>
                 /\ ~IsCancelMsg(Result(c).err)
                 /\ Result(c).err # NilErr <=> PageFails(e)
                 /\ Result(c).err = NilErr =>
                       Result(c).val =
                          LET items == DecodeFor(log[c].fn, Accumulated(srv[e].pages))
                          IN IF log[c].fn = "GetProjects"
                             THEN SelectSeq(items, LAMBDA project :
                                      FoldContains(project.PathWithNamespace,
                                                   log[c].arg))
                             ELSE items

\* getProjectsForGroup, asked for everything, got a count response with an
\* unparseable X-Total and returned the three items of the pages
C28_Witness ==
    /\ Finished /\ TopCall.fn = "getProjectsForGroup" /\ TopCall.all
    /\ ZeroProbes # {}
    /\ srv[<<"groupProjects", FetchGroupID, <<>>>>].probe.xTotal = <<53, 120>>
    /\ ret.err = NilErr /\ Len(ret.val) = 3

----------------------------------------------------------------------------
(* Claims about a remote hierarchy with a cycle. *)

\* the fetches of the history that returned an error
FailedFetches ==
    {c \in FetcherCalls : Returned(c) /\ Result(c).err # NilErr}

\* C29: on a remote hierarchy with a cycle, as long as every fetch has
\* succeeded, the call of PopulateGroupHierarchy on a group of the cycle has
\* not returned, and the program can stop only where the recursion is cut
\* off in this model, MaxDepth calls deep: there is no guard against a
\* group met again.
C29_CycleNeverReturns ==
    (log # <<>> /\ FailedFetches = {}) =>
        /\ ~Returned(1)
        /\ stack # <<>>
        /\ (~ENABLED NextCycle) => PopulateDepth = MaxDepth

\* MaxDepth nested calls, each on a group already being populated further
\* up the stack, with every fetch so far successful
C29_Witness ==
    /\ PopulateDepth = MaxDepth
    /\ FailedFetches = {}
    /\ \A k \in DOMAIN stack :
          \E l \in DOMAIN stack : l # k /\ stack[l].group.ID = stack[k].group.ID

----------------------------------------------------------------------------
(* Claims about failing responses. *)

\* a response Client.get is to refuse: none came, its body could not be
\* read, its status is not 200, or its body is not JSON
IsFailure(resp) == resp.fail # "none" \/ resp.status # StatusOK \/ ~resp.bodyOK

\* the requests of the history that were answered so
RefusedReqs == {j \in Reqs(1..Len(log)) : IsFailure(Respond(log[j].req))}

\* C30: Client.get returns an error and decodes nothing for every response
\* whose status is not 200, whatever its body, for a transport failure and
\* for a 200 response whose body is not JSON; the fetcher that asked such a
\* response for a list page returns at once with an error and a nil list,
\* and no item of that response is in the result of the outermost call.
C30_GetFailures ==
    \A j \in RefusedReqs :
        LET resp == Respond(log[j].req)
        IN /\ Get(resp).err # NilErr
           /\ Get(resp).objs = <<>>
           /\ log[j].req.perPage = listPerPage =>
                 LET c == Caller(j)
                 IN /\ c \in FetcherCalls
                    /\ Returned(c) /\ ReturnOf(c) = j + 1
                    /\ Result(c).err # NilErr
                    /\ Result(c).val = <<>>
           /\ Finished =>
                 \A k \in 1..Len(ret.val) : \A i \in 1..Len(resp.objs) :
                     ret.val[k].ID # resp.objs[i].id

\* GetProjects with the term "teama" asked a second page that came back
\* with status 201 and a JSON array holding a matching object, after a
\* first page with a matching object; it returned an error and no list
C30_Witness ==
    /\ Finished /\ TopCall.fn = "GetProjects" /\ TopCall.arg = TermTeama
    /\ \E j \in RefusedReqs :
          /\ log[j].req.page = 2 /\ log[j].req.perPage = listPerPage
          /\ Respond(log[j].req).status = 201
          /\ Respond(log[j].req).objs = FailBody
    /\ ret.val = <<>> /\ ret.err # NilErr

----------------------------------------------------------------------------
(* Claims about the all flag. *)

\* the calls of fetchers and of PopulateGroupHierarchy without the all flag
RecentOnlyCalls ==
    {c \in AllCalls : /\ log[c].fn \in FetcherNames \cup {"PopulateGroupHierarchy"}
                      /\ ~log[c].all}

\* what a call has done so far, nested calls included
SoFar(c) == {j \in (c + 1)..Len(log) : j < ReturnOf(c)}

\* the count responses a call received that carry a total above the
\* threshold
LargeTotalsSeen(c) ==
    {j \in SoFar(c) : /\ log[j].ev = "req"
                      /\ log[j].req.perPage = probePerPage
                      /\ Get(Respond(log[j].req)).err = NilErr
                      /\ Get(Respond(log[j].req)).info.Total > largeFetchThreshold}

\* C31: during a call of a fetcher or of PopulateGroupHierarchy whose all
\* flag is false, confirmLargeFetch is not called, nothing is sent on the
\* control channel and no prompt is written, whatever totals the count
\* responses carry; and the call does not return the cancellation error.
C31_ConfirmationOnlyWithAll ==
    \A c \in RecentOnlyCalls :
        /\ \A j \in SoFar(c) :
              /\ log[j].ev \notin {"send", "prompt"}
              /\ log[j].ev = "call" => log[j].fn # "confirmLargeFetch"
        /\ Returned(c) => Result(c).err # ErrCancelled

\* a population without the all flag has returned after a count response
\* with a total above the threshold
C31_Witness ==
    /\ SomeReturned
    /\ \E c \in RecentOnlyCalls :
          /\ log[c].fn = "PopulateGroupHierarchy"
          /\ ReturnOf(c) = Len(log)
          /\ LargeTotalsSeen(c) # {}
          /\ ch = <<>>

----------------------------------------------------------------------------
(* Claims about the re-fetch of GetGroups. *)

\* the calls of GetGroups made during the outermost call
NestedGetGroups ==
    {c \in FetcherCalls : c > 1 /\ log[c].fn = "GetGroups"}

\* C32: a call of GetGroups from the outside leads to at most one nested
\* call of GetGroups, which has an empty search term and the same all flag
\* and makes no nested call itself; to at most two count requests and to at
\* most two calls of confirmLargeFetch.
C32_FallbackAtMostOnce ==
    (log # <<>> /\ TopCall.fn = "GetGroups") =>
        /\ Cardinality(NestedGetGroups) <= 1
        /\ \A c \in NestedGetGroups :
              /\ log[c].arg = <<>> /\ log[c].all = TopCall.all
              /\ Caller(c) = 1
              /\ TopCall.arg # <<>>
        /\ Cardinality(ProbeReqs) <= 2
        /\ Cardinality(GateCalls) <= 2

\* a search with the all flag that found nothing: one nested call, two
\* count requests, two calls of the gate, and the call is over
C32_Witness ==
    /\ Finished /\ TopCall.fn = "GetGroups"
    /\ Cardinality(NestedGetGroups) = 1
    /\ Cardinality(ProbeReqs) = 2
    /\ Cardinality(GateCalls) = 2
    /\ ret.err = NilErr

----------------------------------------------------------------------------
(* Claims about the signals on the control channel. *)

\* the signals put on the control channel, in the order of the sends
Sends == {j \in 1..Len(log) : log[j].ev = "send"}

Sent ==
    LET sel == SelectSeq(log, LAMBDA x : x.ev = "send")
    IN [k \in 1..Len(sel) |-> sel[k].val]

\* the signals the animator has taken from the channel: those sent and no
\* longer in it
Received == SubSeq(Sent, 1, Len(Sent) - Len(ch))

\* the send before the one at j (0: none)
SendBefore(j) ==
    LET before == {k \in Sends : k < j}
    IN IF before = {} THEN 0 ELSE CHOOSE k \in before : \A l \in before : l <= k

\* C33: the channel hands the signals on in the order they were sent; the
\* resume signals sent never outnumber the pause signals sent; a resume
\* signal is sent only by a call of confirmLargeFetch that has sent its
\* own pause signal, with no other signal in between and after that pause
\* signal has left the channel; so every resume signal the animator has
\* received was received right after the pause signal of the same call.
C33_ResumeFollowsOwnPause ==
    /\ Len(ch) <= Len(Sent)
    /\ ch = SubSeq(Sent, Len(Sent) - Len(ch) + 1, Len(Sent))
    /\ Cardinality({j \in Sends : ~log[j].val})
          <= Cardinality({j \in Sends : log[j].val})
    /\ \A i \in GateCalls : \A r \in GateSends(i, FALSE) :
          /\ SendBefore(r) \in GateSends(i, TRUE)
          /\ Cardinality(GateSends(i, FALSE)) = 1
    /\ \A k \in 1..Len(Sent) :
          ~Sent[k] => /\ k > 1 /\ Sent[k - 1]
                      /\ Len(Received) >= k - 1
    /\ \A k \in 1..Len(Received) :
          ~Received[k] => (k > 1 /\ Received[k - 1])

\* a call sent its pause signal, was answered yes, sent its resume signal
\* and returned; the animator has received both and runs unpaused
C33_Witness ==
    /\ stack = <<>>
    /\ \E i \in GateCalls :
          /\ GateSends(i, TRUE) # {} /\ GateSends(i, FALSE) # {}
    /\ Received = <<TRUE, FALSE>>
    /\ ch = <<>> /\ anim = "running" /\ ~paused

----------------------------------------------------------------------------
(* Claims about the animator after an affirmative answer. *)

\* the confirmation policy has just answered yes to a call that had sent
\* its pause signal, and the animator is running
AnsweredYes ==
    /\ Running("confirmLargeFetch", "resume")
    /\ Top.didPause
    /\ anim = "running" /\ ~done

\* the animator is out of the paused state with nothing left to receive and
\* the status line painted
Repainting == ~paused /\ ch = <<>> /\ statusLine \in {"message", "frame"}

\* the resume signal is in the channel, the animator running
ResumeUnderWay == anim = "running" /\ ch = << FALSE >>

\* C34 as stated: once the policy has answered yes to a call that sent its
\* pause signal to a running animator, the animator eventually is out of the
\* paused state and has repainted the status line, unless it is stopped.
C34_Original == AnsweredYes ~> (Repainting \/ done)

\* C34: once the resume signal of confirmLargeFetch is in the channel of a
\* running animator (the animator had taken the pause signal out before the
\* resume signal was sent), the animator eventually is out of the paused
\* state and has repainted the status line, unless it is stopped; a resume
\* signal sent while the pause signal is still in the channel is dropped.
C34_ResumesWhenDelivered ==
    /\ ResumeUnderWay ~> (Repainting \/ done)
    /\ [][(AnsweredYes /\ ch # <<>>) => ch' = ch]_<<stack>>

\* the animator has taken the pause signal and then the resume signal of a
\* call that was answered yes: it is unpaused and shows the message
C34_Witness ==
    /\ Received = <<TRUE, FALSE>>
    /\ anim = "running" /\ ~done
    /\ ~paused /\ ch = <<>> /\ statusLine = "message"

----------------------------------------------------------------------------
(* Claims about the stop function. *)

\* the calls of the stop function in the history
Stops == {j \in 1..Len(log) : log[j].ev = "stop"}

Panics == {j \in 1..Len(log) : log[j].ev = "panic"}

\* C35: the stop function can be called again and again: a call closes done
\* exactly when there is an animator and no call before it has (so only the
\* first call closes it, and none when stderr is no terminal); a later call
\* changes nothing; no call panics and none waits; done stays closed; and
\* once done is closed the animator goroutine eventually ends.
C35_StopIdempotent ==
    /\ [](/\ Panics = {}
          /\ \A j \in Stops :
                log[j].closed <=> (anim # "off" /\ \A k \in Stops : k >= j)
          /\ (Stops # {} /\ anim # "off") => done
          /\ (stack = <<>> /\ calls < MaxStops) => ENABLED ClearStatus)
    /\ [][(done /\ stack = <<>> /\ Len(log') > Len(log)
              /\ log'[Len(log')].ev = "stop")
            => UNCHANGED <<done, ch, animVars, pauseStatus, stack>>]_<<calls>>
    /\ [][done => done']_<<done>>
    /\ done ~> (anim = "exited")

\* three calls in a row with an animator: the first closed done, the others
\* did nothing, and the animator has ended
C35_Witness ==
    /\ Cardinality(Stops) = 3
    /\ \E j \in Stops : log[j].closed
    /\ log[Len(log)].ev = "stop" /\ ~log[Len(log)].closed
    /\ done /\ anim = "exited"

----------------------------------------------------------------------------
(* Claims about the termination of the population. *)

\* PopulateGroupHierarchy has just been called
JustCalled ==
    /\ log # <<>>
    /\ log[Len(log)].ev = "call"
    /\ log[Len(log)].fn = "PopulateGroupHierarchy"

\* where the k-th call from the outside is in the history
RECURSIVE RunStartOf(_)
RunStartOf(k) == IF k <= 1 THEN 1 ELSE ReturnOf(RunStartOf(k - 1)) + 1

\* the calls of PopulateGroupHierarchy of the run that is going on
CallsOfThisRun == {c \in PopulateCalls : c >= RunStartOf(calls)}

\* the goroutine can take its next step; at the end of the loop of
\* PopulateGroupHierarchy that step is the return after the two sorts, which
\* nothing can hold up
CanStep ==
    IF Running("PopulateGroupHierarchy", "loop") /\ Top.i > Len(Top.subgroups)
    THEN TRUE
    ELSE IF Top.fn = "PopulateGroupHierarchy" THEN ENABLED Populate
    ELSE IF Top.fn = "confirmLargeFetch" THEN ENABLED Gate
    ELSE ENABLED GroupFetchers

\* the events one fetch can add to the history: its call and its return, the
\* count request, the call of the gate with its two signals, its prompt and
\* its return, and one request for each page and for the empty page
FetchEvents(e) == 2 + 1 + 5 + Len(srv[e].pages) + 1

\* the events of one visit of a group: the call, the return, the two fetches
VisitEvents(gid) ==
    2 + FetchEvents(<<"groupProjects", gid, <<>>>>)
      + FetchEvents(<<"subgroups", gid, <<>>>>)

RECURSIVE EventsUpTo(_)
EventsUpTo(gid) == IF gid = 0 THEN 0 ELSE VisitEvents(gid) + EventsUpTo(gid - 1)

\* the steps that add nothing to the history, by the place they leave and
\* the place they reach: none of them starts where another one ends
SilentMoves ==
    {<<"confirmed", "page">>, <<"gotSubgroups", "loop">>, <<"gotChild", "loop">>,
     <<"entry", "ask">>}

\* C36: on the remote hierarchy, a finite tree whose lists end with an empty
\* page, every call of PopulateGroupHierarchy returns, whatever fetches fail
\* and whatever the confirmation policy answers, and during one call from
\* the outside no group is visited twice and only groups of the subtree
\* are.  Termination: a call that has not returned can always take a step;
\* a step adds an event to the history or is one of the silent moves, of
\* which no two follow each other; and the history of a run is never longer
\* than what one visit of every group can add.
C36_PopulationTerminates ==
    /\ [](JustCalled =>
             /\ \A c \in CallsOfThisRun :
                   c < Len(log) => log[c].arg.ID # log[Len(log)].arg.ID
             /\ log[Len(log)].arg.ID \in RemoteIDs)
    /\ [](stack # <<>> => CanStep)
    /\ [](Len(log) <= calls * EventsUpTo(Cardinality(RemoteIDs)))
    /\ [][stack # <<>> =>
             /\ Len(log') >= Len(log)
             /\ Len(log') = Len(log) =>
                   /\ Len(stack') = Len(stack)
                   /\ <<Top.pc, stack'[Len(stack')].pc>> \in SilentMoves]_stack

\* a call from the outside has returned nil after visiting all five groups
C36_Witness ==
    /\ JustReturned /\ stack = <<>>
    /\ Cardinality(CallsOfThisRun) = Cardinality(RemoteIDs)
    /\ ret.err = NilErr

(* Claims about the cancellation in hierarchy mode *)

\* the population of the root at c returned the cancellation
RootCancelled(c) == IsCancelMsg(Result(c).err)

\* display.PrintHierarchy was called on some state of the group with the ID
RenderedID(id) ==
    \E j \in 1..Len(log) :
        log[j].ev = "print" /\ log[j].what = "hierarchy" /\ log[j].val.ID = id

\* C37: when PopulateGroupHierarchy returns the cancellation for a root
\* group in hierarchy mode, the roots populated before it are rendered, the
\* cancelled root is not, no later root is populated or rendered, and the
\* process exits with code 0.
C37_CancellationInHierarchyMode ==
    Exited =>
        \A c \in RootCalls :
            RootCancelled(c) =>
                /\ \A d \in RootCalls : d < c => Rendered(Result(d).val)
                /\ ~RenderedID(log[c].arg.ID)
                /\ \A d \in RootCalls : d <= c
                /\ \A r \in RootsAfter(c) : ~RenderedID(r.ID)
                /\ log[Len(log)].code = 0

\* the population of the second root was cancelled after the first root
\* was populated, and the process has exited
C37_Witness ==
    /\ Exited
    /\ \E c \in RootCalls :
          /\ RootCancelled(c)
          /\ \E d \in RootCalls : d < c /\ Rendered(Result(d).val)

(* Claims about the order of the requests of the population *)

\* the requests a call of PopulateGroupHierarchy made for its own group
OwnReqs(c) == {j \in ReqsOf(c) : log[j].req.gid = log[c].arg.ID}

\* the place of the recursive call d among those of the call c
RankIn(c, d) == Cardinality({x \in ChildCalls(c) : x <= d})

\* the requests the step adds to the history
NewReqs == SelectSeq(SubSeq(log', Len(log) + 1, Len(log')), LAMBDA x : x.ev = "req")

\* C38: a call of PopulateGroupHierarchy makes the requests for the
\* projects of its group, then those for the list of its subgroups, then
\* the recursive calls, one per listed subgroup in the order of the
\* server's list; every other request of the call lies inside one of these
\* recursive calls, which follow one another; a step issues at most one
\* request, with its response.
C38_VisitOrder ==
    /\ [](JustReturned /\ stack = <<>> =>
             \A c \in PopulateCalls :
                /\ \A j \in OwnReqs(c) :
                      /\ log[j].req.path \in {"groupProjects", "subgroups"}
                      /\ \A k \in OwnReqs(c) :
                            /\ log[j].req.path = "groupProjects"
                            /\ log[k].req.path = "subgroups"
                            => j < k
                      /\ \A d \in ChildCalls(c) : j < d
                /\ \A j \in ReqsOf(c) \ OwnReqs(c) :
                      \E d \in ChildCalls(c) : j \in Body(d)
                /\ \A d \in ChildCalls(c) :
                      /\ RankIn(c, d) <= Len(ServedSubgroups(log[c].arg.ID))
                      /\ log[d].arg.ID =
                            ServedSubgroups(log[c].arg.ID)[RankIn(c, d)].ID
                      /\ \A x \in ChildCalls(c) : x < d => ReturnOf(x) < d
                /\ (ChildCalls(c) # {} /\ ~IsCancelMsg(Result(c).err)) =>
                      Cardinality(ChildCalls(c)) =
                          Len(ServedSubgroups(log[c].arg.ID)))
    /\ [][Len(NewReqs) <= 1]_log

\* the whole tree was visited: the root's call made requests for projects
\* and for subgroups and three recursive calls, the last of which made one
C38_Witness ==
    /\ JustReturned /\ stack = <<>>
    /\ \E c \in PopulateCalls :
          /\ Cardinality(ChildCalls(c)) = 3
          /\ \E j, k \in OwnReqs(c) :
                log[j].req.path = "groupProjects" /\ log[k].req.path = "subgroups"
          /\ \E d \in ChildCalls(c) : ChildCalls(d) # {} /\ OwnReqs(d) # {}

(* Claims about the version flag *)

\* C39: with the version flag the process prints the version line and exits
\* with code 0, whatever the build variables hold, the default CommitSHA
\* "none" of a build without release metadata included.
C39_VersionFlag ==
    (Exited /\ TheCommand.flags.version) =>
        /\ log[Len(log)].code = 0
        /\ \E j \in 1..Len(log) : log[j].ev = "print" /\ log[j].what = "version"

====
